---- MODULE Spec2Model ----
(***************************************************************************)
(* Model of the cratehacker ingestion pipeline: the Rekordbox XML parser   *)
(* (src/lib/parser.ts), the genre splitter, the playlist tree builder, the  *)
(* zod schema validator (src/lib/schemas.ts) and the parse worker.          *)
(*                                                                         *)
(* JavaScript values are records with one homogeneous payload per field:    *)
(*   k : the kind ("undefined", "nan", "number", "string", "date",          *)
(*       "invaliddate", "array")                                            *)
(*   n : integer part (floor) of a number, or the time value of a Date      *)
(*   d : tenths of a number (0..9), value = n + d/10                        *)
(*   s : the characters of a string, one character per element              *)
(*   a : the elements of an array of strings                                *)
(***************************************************************************)
EXTENDS Integers, Sequences, FiniteSets, TLC

Undefined == [k |-> "undefined", n |-> 0, d |-> 0, s |-> <<>>, a |-> <<>>]
NaN == [k |-> "nan", n |-> 0, d |-> 0, s |-> <<>>, a |-> <<>>]
Frac(n, d) == [k |-> "number", n |-> n, d |-> d, s |-> <<>>, a |-> <<>>]
Num(n) == Frac(n, 0)
Str(s) == [k |-> "string", n |-> 0, d |-> 0, s |-> s, a |-> <<>>]
DateV(t) == [k |-> "date", n |-> t, d |-> 0, s |-> <<>>, a |-> <<>>]
InvalidDate == [k |-> "invaliddate", n |-> 0, d |-> 0, s |-> <<>>, a |-> <<>>]
Arr(a) == [k |-> "array", n |-> 0, d |-> 0, s |-> <<>>, a |-> a]

IsUndefined(v) == v.k = "undefined"
IsString(v) == v.k = "string"
\* typeof v === 'number' && !isNaN(v)
IsNumber(v) == v.k = "number"
IsInteger(v) == v.k = "number" /\ v.d = 0
\* comparisons of a number value with an integer literal
Gt(v, c) == v.n > c \/ (v.n = c /\ v.d > 0)
Ge(v, c) == v.n >= c
Lt(v, c) == v.n < c
Le(v, c) == v.n < c \/ (v.n = c /\ v.d = 0)

\* JavaScript truthiness (ToBoolean)
Truthy(v) ==
    CASE v.k = "undefined" -> FALSE
      [] v.k = "nan" -> FALSE
      [] v.k = "number" -> ~(v.n = 0 /\ v.d = 0)
      [] v.k = "string" -> v.s # <<>>
      [] OTHER -> TRUE

\* a || b
Or(a, b) == IF Truthy(a) THEN a ELSE b

\* String(x) for the values an attribute can hold: a string is itself,
\* undefined becomes the text "undefined"
ToStr(v) == IF v.k = "string" THEN v.s ELSE <<"u", "n", "d", "e", "f", "i", "n", "e", "d">>

Digits == <<"0", "1", "2", "3", "4", "5", "6", "7", "8", "9">>
IsDigit(c) == \E i \in 1..10 : Digits[i] = c
DigitVal(c) == (CHOOSE i \in 1..10 : Digits[i] = c) - 1
IsSpace(c) == c = " "

RECURSIVE SkipSpaces(_)
SkipSpaces(s) == IF s # <<>> /\ IsSpace(Head(s)) THEN SkipSpaces(Tail(s)) ELSE s

\* the longest prefix of decimal digits
RECURSIVE DigitPrefix(_)
DigitPrefix(s) ==
    IF s # <<>> /\ IsDigit(Head(s)) THEN <<Head(s)>> \o DigitPrefix(Tail(s)) ELSE <<>>

RECURSIVE DigitsValue(_, _)
DigitsValue(s, acc) ==
    IF s = <<>> THEN acc ELSE DigitsValue(Tail(s), acc * 10 + DigitVal(Head(s)))

\* parseInt(text): leading white space skipped, optional sign, then the
\* longest run of digits; NaN when there is no digit
parseInt(s) ==
    LET t == SkipSpaces(s)
        neg == t # <<>> /\ Head(t) = "-"
        u == IF t # <<>> /\ Head(t) \in {"-", "+"} THEN Tail(t) ELSE t
        ds == DigitPrefix(u)
    IN  IF ds = <<>> THEN NaN
        ELSE IF neg THEN Num(0 - DigitsValue(ds, 0)) ELSE Num(DigitsValue(ds, 0))

\* parseFloat(text): as parseInt, with an optional fraction of which the
\* model keeps the first decimal digit (inputs carry at most one)
parseFloat(s) ==
    LET t == SkipSpaces(s)
        neg == t # <<>> /\ Head(t) = "-"
        u == IF t # <<>> /\ Head(t) \in {"-", "+"} THEN Tail(t) ELSE t
        ds == DigitPrefix(u)
        rest == SubSeq(u, Len(ds) + 1, Len(u))
        fs == IF rest # <<>> /\ Head(rest) = "." THEN DigitPrefix(Tail(rest)) ELSE <<>>
        ip == DigitsValue(ds, 0)
        fp == IF fs = <<>> THEN 0 ELSE DigitVal(fs[1])
    IN  IF ds = <<>> /\ fs = <<>> THEN NaN
        ELSE IF ~neg THEN Frac(ip, fp)
        ELSE IF fp = 0 THEN Frac(0 - ip, 0)
        ELSE Frac(0 - ip - 1, 10 - fp)

\* isNaN(v) for undefined, NaN and numbers
isNaN(v) == v.k # "number"
\* the comparison bpmVal > 0 left out of the bpm guard
JsGt_anyNumber(v, c) == IsNumber(v)

\* numeric comparisons as JavaScript evaluates them: false on NaN / undefined
JsGt(v, c) == IsNumber(v) /\ Gt(v, c)
JsGe(v, c) == IsNumber(v) /\ Ge(v, c)
JsLe(v, c) == IsNumber(v) /\ Le(v, c)

AllDigits(s) == \A i \in 1..Len(s) : IsDigit(s[i])

\* new Date(text) for the date-only ISO forms YYYY-MM-DD and YYYY-MM; every
\* other text of the model's alphabet is unparseable.  The time value is
\* year * 10000 + month * 100 + day, which orders dates as the clock does.
NewDate(s) ==
    LET isLong == Len(s) = 10 /\ s[5] = "-" /\ s[8] = "-"
                  /\ AllDigits(SubSeq(s, 1, 4)) /\ AllDigits(SubSeq(s, 6, 7))
                  /\ AllDigits(SubSeq(s, 9, 10))
        isShort == Len(s) = 7 /\ s[5] = "-"
                   /\ AllDigits(SubSeq(s, 1, 4)) /\ AllDigits(SubSeq(s, 6, 7))
        y == DigitsValue(SubSeq(s, 1, 4), 0)
        m == DigitsValue(SubSeq(s, 6, 7), 0)
        dd == IF isLong THEN DigitsValue(SubSeq(s, 9, 10), 0) ELSE 1
    IN  IF (isLong \/ isShort) /\ m \in 1..12 /\ dd \in 1..31
        THEN DateV(y * 10000 + m * 100 + dd)
        ELSE InvalidDate

\* text.trim()
RECURSIVE TrimRight(_)
TrimRight(s) ==
    IF s # <<>> /\ IsSpace(s[Len(s)]) THEN TrimRight(SubSeq(s, 1, Len(s) - 1)) ELSE s
Trim(s) == TrimRight(SkipSpaces(s))

\* text.split(sep): the segments between separators, empty ones included
RECURSIVE SplitAcc(_, _, _)
SplitAcc(s, sep, cur) ==
    IF s = <<>> THEN <<cur>>
    ELSE IF Head(s) = sep THEN <<cur>> \o SplitAcc(Tail(s), sep, <<>>)
    ELSE SplitAcc(Tail(s), sep, Append(cur, Head(s)))
Split(s, sep) == SplitAcc(s, sep, <<>>)

RECURSIVE MapTrim(_)
MapTrim(segs) == IF segs = <<>> THEN <<>> ELSE <<Trim(Head(segs))>> \o MapTrim(Tail(segs))

\* the filter of parseGenres keeping every segment
FilterNonEmpty_keepAll(segs) == segs

RECURSIVE FilterNonEmpty(_)
FilterNonEmpty(segs) ==
    IF segs = <<>> THEN <<>>
    ELSE IF Len(Head(segs)) > 0 THEN <<Head(segs)>> \o FilterNonEmpty(Tail(segs))
    ELSE FilterNonEmpty(Tail(segs))

\* genreString.trim() inside parseGenres raises a TypeError: the value passed
\* the !genreString test and is not a string, so it has no trim method (the
\* decoder gives a number or an object for a Genre child element of TRACK)
TrimThrows(genreString) == Truthy(genreString) /\ ~IsString(genreString)

\* parseGenres(genreString), for the values on which it returns
parseGenres(genreString) ==
    IF ~Truthy(genreString) \/ Trim(genreString.s) = <<>> THEN Undefined
    ELSE LET genres == FilterNonEmpty(MapTrim(Split(genreString.s, ";")))
         IN  IF Len(genres) > 0 THEN Arr(genres) ELSE Undefined

Unknown == <<"U", "n", "k", "n", "o", "w", "n">>

\* parseTrack(xmlTrack); now is the time value new Date() returns
parseTrack(xmlTrack, now) ==
    LET genres == parseGenres(xmlTrack.Genre)
        bpmVal == IF Truthy(xmlTrack.AverageBpm)
                  THEN parseFloat(ToStr(xmlTrack.AverageBpm)) ELSE Undefined
        bpm == IF Truthy(bpmVal) /\ ~isNaN(bpmVal) /\ JsGt(bpmVal, 0)
               THEN bpmVal ELSE Undefined
        durationVal == IF Truthy(xmlTrack.TotalTime)
                       THEN parseInt(ToStr(xmlTrack.TotalTime)) ELSE Num(0)
        duration == IF JsGe(durationVal, 0) THEN durationVal ELSE Num(0)
        dateVal == IF Truthy(xmlTrack.DateAdded)
                   THEN NewDate(xmlTrack.DateAdded.s) ELSE DateV(now)
        dateAdded == IF dateVal.k = "invaliddate" THEN DateV(now) ELSE dateVal
        yearVal == IF Truthy(xmlTrack.Year)
                   THEN parseInt(ToStr(xmlTrack.Year)) ELSE Undefined
        year == IF Truthy(yearVal) /\ JsGe(yearVal, 1900) /\ JsLe(yearVal, 2100)
                THEN yearVal ELSE Undefined
        ratingVal == IF Truthy(xmlTrack.Rating)
                     THEN parseInt(ToStr(xmlTrack.Rating)) ELSE Undefined
        rating == IF ratingVal # Undefined /\ JsGe(ratingVal, 0) /\ JsLe(ratingVal, 5)
                  THEN ratingVal ELSE Undefined
    IN  [id |-> Str(ToStr(xmlTrack.TrackID)),
         title |-> Or(xmlTrack.Name, Str(Unknown)),
         artist |-> Or(xmlTrack.Artist, Str(Unknown)),
         album |-> Or(xmlTrack.Album, Undefined),
         genre |-> genres,
         bpm |-> bpm,
         key |-> Or(xmlTrack.Tonality, Undefined),
         rating |-> rating,
         playCount |-> IF Truthy(xmlTrack.PlayCount)
                       THEN parseInt(ToStr(xmlTrack.PlayCount)) ELSE Undefined,
         duration |-> duration,
         dateAdded |-> dateAdded,
         location |-> Or(xmlTrack.Location, Str(<<>>)),
         trackNumber |-> IF Truthy(xmlTrack.TrackNumber)
                         THEN parseInt(ToStr(xmlTrack.TrackNumber)) ELSE Undefined,
         year |-> year,
         comments |-> Or(xmlTrack.Comments, Undefined),
         tonality |-> Or(xmlTrack.Tonality, Undefined),
         bitRate |-> IF Truthy(xmlTrack.BitRate)
                     THEN parseInt(ToStr(xmlTrack.BitRate)) ELSE Undefined,
         sampleRate |-> IF Truthy(xmlTrack.SampleRate)
                        THEN parseInt(ToStr(xmlTrack.SampleRate)) ELSE Undefined,
         label |-> Or(xmlTrack.Label, Undefined),
         remixer |-> Or(xmlTrack.Remixer, Undefined),
         composer |-> Or(xmlTrack.Composer, Undefined),
         grouping |-> Or(xmlTrack.Grouping, Undefined)]

\* trackNodes.map(parseTrack)
RECURSIVE MapParseTrack(_, _)
MapParseTrack(trackNodes, now) ==
    IF trackNodes = <<>> THEN <<>>
    ELSE <<parseTrack(Head(trackNodes), now)>> \o MapParseTrack(Tail(trackNodes), now)

\* trackNodes.map(parseTrack) is left by the TypeError of parseGenres
parseTracksThrows(collectionNode) ==
    \E i \in 1..Len(collectionNode.TRACK) : TrimThrows(collectionNode.TRACK[i].Genre)

\* parseTracks(collectionNode): TRACK is the array of track elements, empty
\* (the key is absent) when the collection holds no TRACK element
parseTracks(collectionNode, now) ==
    IF collectionNode.TRACK = <<>> THEN <<>>
    ELSE MapParseTrack(collectionNode.TRACK, now)

(***************************************************************************)
(* The zod schemas.  A schema applied to a value gives a parse result:      *)
(* ok with the output value, or a failure (the ZodError validateLibrary     *)
(* throws).                                                                 *)
(***************************************************************************)
Ok(v) == [ok |-> TRUE, v |-> v]
Fail == [ok |-> FALSE, v |-> Undefined]

\* z.string()
zString(val) == IF IsString(val) THEN Ok(val) ELSE Fail

\* z.string().optional()
zStringOptional(val) == IF IsUndefined(val) \/ IsString(val) THEN Ok(val) ELSE Fail

\* z.string().default('Unknown')
zStringDefaultUnknown(val) ==
    IF IsUndefined(val) THEN Ok(Str(Unknown)) ELSE zString(val)

\* emptyStringToUndefined
emptyStringToUndefined(val) ==
    IF IsUndefined(val) THEN Ok(Undefined)
    ELSE IF IsString(val) THEN Ok(IF val.s = <<>> THEN Undefined ELSE val)
    ELSE Fail

\* dateSchema: the first member of the union that accepts the value wins;
\* the string member's transform is not validated, z.date() rejects an
\* invalid Date
dateSchema(val) ==
    IF IsString(val) THEN Ok(NewDate(val.s))
    ELSE IF val.k = "date" THEN Ok(val)
    ELSE Fail

\* z.array(z.string()).optional()
zStringArrayOptional(val) ==
    IF IsUndefined(val) \/ val.k = "array" THEN Ok(val) ELSE Fail

\* z.array(z.string())
zStringArray(val) == IF val.k = "array" THEN Ok(val) ELSE Fail

\* z.number().positive().optional()
zPositiveOptional(val) ==
    IF IsUndefined(val) THEN Ok(val)
    ELSE IF IsNumber(val) /\ Gt(val, 0) THEN Ok(val)
    ELSE Fail

\* z.number().int().min(0).max(5).optional()
zRating(val) ==
    IF IsUndefined(val) THEN Ok(val)
    ELSE IF IsInteger(val) /\ Ge(val, 0) /\ Le(val, 5) THEN Ok(val)
    ELSE Fail

\* z.number().int().min(0).optional()
zPlayCount(val) ==
    IF IsUndefined(val) THEN Ok(val)
    ELSE IF IsInteger(val) /\ Ge(val, 0) THEN Ok(val)
    ELSE Fail

\* z.number().min(0)
zDuration(val) == IF IsNumber(val) /\ Ge(val, 0) THEN Ok(val) ELSE Fail

\* z.number().int().optional().transform(...) of trackNumber
zTrackNumber(val) ==
    IF IsUndefined(val) THEN Ok(Undefined)
    ELSE IF IsInteger(val) THEN Ok(IF Le(val, 0) THEN Undefined ELSE val)
    ELSE Fail

\* the transform of year: an invalid year becomes 0 instead of undefined
zYear_zeroDefault(val) ==
    IF IsUndefined(val) THEN Ok(Num(0))
    ELSE IF IsInteger(val)
         THEN Ok(IF Lt(val, 1900) \/ Gt(val, 2100) THEN Num(0) ELSE val)
    ELSE Fail

\* z.number().int().optional().transform(...) of year
zYear(val) ==
    IF IsUndefined(val) THEN Ok(Undefined)
    ELSE IF IsInteger(val)
         THEN Ok(IF Lt(val, 1900) \/ Gt(val, 2100) THEN Undefined ELSE val)
    ELSE Fail

\* z.number().optional().transform(...) of bitRate
zBitRate(val) ==
    IF IsUndefined(val) THEN Ok(Undefined)
    ELSE IF IsNumber(val) THEN Ok(IF Le(val, 0) THEN Undefined ELSE val)
    ELSE Fail

\* trackSchema: every field parsed by its schema, unknown keys stripped
trackSchema(t) ==
    LET r == [id |-> zString(t.id),
              title |-> zStringDefaultUnknown(t.title),
              artist |-> zStringDefaultUnknown(t.artist),
              album |-> emptyStringToUndefined(t.album),
              genre |-> zStringArrayOptional(t.genre),
              bpm |-> zPositiveOptional(t.bpm),
              key |-> emptyStringToUndefined(t.key),
              rating |-> zRating(t.rating),
              playCount |-> zPlayCount(t.playCount),
              duration |-> zDuration(t.duration),
              dateAdded |-> dateSchema(t.dateAdded),
              location |-> zString(t.location),
              trackNumber |-> zTrackNumber(t.trackNumber),
              year |-> zYear(t.year),
              comments |-> emptyStringToUndefined(t.comments),
              tonality |-> emptyStringToUndefined(t.tonality),
              bitRate |-> zBitRate(t.bitRate),
              sampleRate |-> zPositiveOptional(t.sampleRate),
              label |-> emptyStringToUndefined(t.label),
              remixer |-> emptyStringToUndefined(t.remixer),
              composer |-> emptyStringToUndefined(t.composer),
              grouping |-> emptyStringToUndefined(t.grouping)]
    IN  [ok |-> \A f \in DOMAIN r : r[f].ok,
         v |-> [f \in DOMAIN r |-> r[f].v]]

\* the count transform of playlistSchema, under .optional()
zCount(val) ==
    IF IsUndefined(val) THEN Ok(Undefined)
    ELSE IF IsNumber(val) THEN Ok(IF Ge(val, 0) THEN val ELSE Undefined)
    ELSE IF IsString(val)
         THEN LET num == parseInt(val.s)
              IN  Ok(IF ~isNaN(num) /\ Ge(num, 0) THEN num ELSE Undefined)
    ELSE Fail

PlaylistTypes == {"folder", "playlist"}

\* playlistSchema
playlistSchema(p) ==
    LET r == [id |-> zString(p.id),
              name |-> zString(p.name),
              tracks |-> zStringArray(p.tracks),
              parentId |-> zStringOptional(p.parentId)]
        c == zCount(p.count)
    IN  [ok |-> (\A f \in DOMAIN r : r[f].ok) /\ c.ok /\ p.type \in PlaylistTypes,
         v |-> [id |-> r.id.v, name |-> r.name.v, tracks |-> r.tracks.v,
                parentId |-> r.parentId.v, type |-> p.type, count |-> c.v]]

\* the totalTracks transform of metadataSchema
zTotalTracks(val) ==
    IF IsNumber(val) THEN Ok(IF Ge(val, 0) THEN val ELSE Num(0))
    ELSE IF IsString(val)
         THEN LET num == parseInt(val.s)
              IN  Ok(IF ~isNaN(num) /\ Ge(num, 0) THEN num ELSE Num(0))
    ELSE Fail

\* z.number().int().positive().optional()
zFileSize(val) ==
    IF IsUndefined(val) THEN Ok(val)
    ELSE IF IsInteger(val) /\ Gt(val, 0) THEN Ok(val)
    ELSE Fail

\* metadataSchema
metadataSchema(m) ==
    LET r == [version |-> zString(m.version),
              company |-> zString(m.company),
              totalTracks |-> zTotalTracks(m.totalTracks),
              parsedAt |-> dateSchema(m.parsedAt),
              fileName |-> zStringOptional(m.fileName),
              fileSize |-> zFileSize(m.fileSize)]
    IN  [ok |-> \A f \in DOMAIN r : r[f].ok,
         v |-> [f \in DOMAIN r |-> r[f].v]]

NoMetadata ==
    [version |-> Undefined, company |-> Undefined, totalTracks |-> Undefined,
     parsedAt |-> Undefined, fileName |-> Undefined, fileSize |-> Undefined]
NoLibrary == [tracks |-> <<>>, playlists |-> <<>>, metadata |-> NoMetadata]

\* librarySchema / validateLibrary(data): librarySchema.parse(data), which
\* throws (ok = FALSE) when any element fails
validateLibrary(data) ==
    LET ts == [i \in 1..Len(data.tracks) |-> trackSchema(data.tracks[i])]
        ps == [i \in 1..Len(data.playlists) |-> playlistSchema(data.playlists[i])]
        m == metadataSchema(data.metadata)
        ok == (\A i \in 1..Len(ts) : ts[i].ok) /\ (\A i \in 1..Len(ps) : ps[i].ok) /\ m.ok
    IN  IF ok
        THEN [ok |-> TRUE,
              v |-> [tracks |-> [i \in 1..Len(ts) |-> ts[i].v],
                     playlists |-> [i \in 1..Len(ps) |-> ps[i].v],
                     metadata |-> m.v]]
        ELSE [ok |-> FALSE, v |-> NoLibrary]

(***************************************************************************)
(* The playlist tree builder.  The decoded NODE tree is a function from     *)
(* paths (the child indices from the root NODE, <<>> being the root) to the *)
(* attributes of the node; node.NODE is present exactly when the node has   *)
(* a first child, and node.TRACK is the array of its membership entries,    *)
(* empty when it has none.                                                  *)
(***************************************************************************)
HasChildren(nodes, path) == Append(path, 1) \in DOMAIN nodes

\* the decimal text of a natural number
RECURSIVE NatToStr(_)
NatToStr(n) ==
    IF n < 10 THEN <<Digits[n + 1]>> ELSE Append(NatToStr(n \div 10), Digits[(n % 10) + 1])

\* Date.now() at the start of the run, in the model's clock
NowMs == 7

\* generateId(): env tells whether crypto.randomUUID exists; draw holds what
\* the random source and the clock give to this call (r: the random text,
\* t: the milliseconds elapsed since the start of the run)
generateId(env, draw) ==
    IF env = "crypto"
    THEN Str(<<"u", Digits[draw.r + 1]>>)
    ELSE Str(NatToStr(NowMs + draw.t) \o <<"-", "r", Digits[draw.r + 1]>>)

Unnamed == <<"U", "n", "n", "a", "m", "e", "d">>

\* trackNodes.map((t) => String(t.Key))
RECURSIVE MapKeys(_)
MapKeys(trackNodes) ==
    IF trackNodes = <<>> THEN <<>>
    ELSE <<ToStr(Head(trackNodes).Key)>> \o MapKeys(Tail(trackNodes))

\* parseNodeRecursive(node, parentId) for the node at path; ParseChildren is
\* its loop over childNodes from index i on
RECURSIVE parseNodeRecursive(_, _, _, _, _)
RECURSIVE ParseChildren(_, _, _, _, _, _)
RECURSIVE ParseChildren_selfParent(_, _, _, _, _, _)
RECURSIVE ParseChildren_siblingsFirst(_, _, _, _, _, _)

\* the record with the membership entries copied whatever the node's type
PlaylistOf_folderTracks(childNode, id, parentId) ==
    LET type == IF ToStr(childNode.Type) = <<"0">> THEN "folder" ELSE "playlist"
        tracks == IF childNode.TRACK # <<>>
                  THEN Arr(MapKeys(childNode.TRACK)) ELSE Arr(<<>>)
    IN  [id |-> id,
         name |-> Or(childNode.Name, Str(Unnamed)),
         type |-> type,
         parentId |-> parentId,
         tracks |-> tracks,
         count |-> Or(Or(childNode.Count, childNode.Entries), Num(0))]

\* the playlist record built for childNode
PlaylistOf(childNode, id, parentId) ==
    LET type == IF ToStr(childNode.Type) = <<"0">> THEN "folder" ELSE "playlist"
        tracks == IF type = "playlist" /\ childNode.TRACK # <<>>
                  THEN Arr(MapKeys(childNode.TRACK)) ELSE Arr(<<>>)
    IN  [id |-> id,
         name |-> Or(childNode.Name, Str(Unnamed)),
         type |-> type,
         parentId |-> parentId,
         tracks |-> tracks,
         count |-> Or(Or(childNode.Count, childNode.Entries), Num(0))]

\* the loop with the record's parentId set to the record's own id
ParseChildren_selfParent(nodes, path, i, parentId, env, draws) ==
    LET cp == Append(path, i) IN
    IF cp \notin DOMAIN nodes THEN <<>>
    ELSE LET id == generateId(env, draws[cp])
             children == IF HasChildren(nodes, cp)
                         THEN parseNodeRecursive(nodes, cp, id, env, draws) ELSE <<>>
         IN  <<PlaylistOf(nodes[cp], id, id)>> \o children
             \o ParseChildren_selfParent(nodes, path, i + 1, parentId, env, draws)

\* the loop with a node's children emitted after the node's later siblings
ParseChildren_siblingsFirst(nodes, path, i, parentId, env, draws) ==
    LET cp == Append(path, i) IN
    IF cp \notin DOMAIN nodes THEN <<>>
    ELSE LET id == generateId(env, draws[cp])
             children == IF HasChildren(nodes, cp)
                         THEN parseNodeRecursive(nodes, cp, id, env, draws) ELSE <<>>
         IN  <<PlaylistOf(nodes[cp], id, parentId)>>
             \o ParseChildren_siblingsFirst(nodes, path, i + 1, parentId, env, draws)
             \o children

ParseChildren(nodes, path, i, parentId, env, draws) ==
    LET cp == Append(path, i) IN
    IF cp \notin DOMAIN nodes THEN <<>>
    ELSE LET childNode == nodes[cp]
             id == generateId(env, draws[cp])
             playlist == PlaylistOf(childNode, id, parentId)
             children == IF HasChildren(nodes, cp)
                         THEN parseNodeRecursive(nodes, cp, id, env, draws) ELSE <<>>
         IN  <<playlist>> \o children \o ParseChildren(nodes, path, i + 1, parentId, env, draws)

parseNodeRecursive(nodes, path, parentId, env, draws) ==
    IF HasChildren(nodes, path)
    THEN ParseChildren(nodes, path, 1, parentId, env, draws)
    ELSE <<>>

\* parsePlaylists(playlistsNode): hasNode tells whether PLAYLISTS holds a
\* NODE element, whose first one is the root
parsePlaylists(playlistsNode, env, draws) ==
    IF ~playlistsNode.hasNode THEN <<>>
    ELSE parseNodeRecursive(playlistsNode.nodes, <<>>, Undefined, env, draws)

\* p.id === currentId inside allPlaylists.find: the first playlist with that
\* id, or 0 when there is none
FindById(allPlaylists, currentId) ==
    IF \E i \in 1..Len(allPlaylists) : allPlaylists[i].id = currentId
    THEN CHOOSE i \in 1..Len(allPlaylists) :
            /\ allPlaylists[i].id = currentId
            /\ \A j \in 1..(i - 1) : allPlaylists[j].id # currentId
    ELSE 0

(***************************************************************************)
(* parseRekordboxXml.  The document is given as the tree the XML decoder    *)
(* yields: wellFormed is FALSE when parser.parse throws; hasRoot,           *)
(* hasCollection, hasProduct and hasPlaylists tell which sections exist.    *)
(***************************************************************************)
\* extractMetadata(xmlRoot, fileName, fileSize)
extractMetadata(xmlRoot, fileName, fileSize, now) ==
    [version |-> IF xmlRoot.hasProduct THEN Or(xmlRoot.PRODUCT.Version, Str(Unknown))
                 ELSE Str(Unknown),
     company |-> IF xmlRoot.hasProduct THEN Or(xmlRoot.PRODUCT.Company, Str(Unknown))
                 ELSE Str(Unknown),
     totalTracks |-> IF Truthy(xmlRoot.COLLECTION.Entries)
                     THEN parseInt(ToStr(xmlRoot.COLLECTION.Entries)) ELSE Num(0),
     parsedAt |-> DateV(now),
     fileName |-> fileName,
     fileSize |-> fileSize]

\* the parser taking a document without a COLLECTION section as one with no
\* tracks
parseRekordboxXml_noCollection(doc, fileName, fileSize, now, env, draws) ==
    IF ~doc.wellFormed
    THEN [ok |-> FALSE, v |-> NoLibrary, error |-> "Failed to parse XML"]
    ELSE IF ~doc.hasRoot
    THEN [ok |-> FALSE, v |-> NoLibrary,
          error |-> "Invalid Rekordbox XML: Missing DJ_PLAYLISTS root element"]
    ELSE IF doc.hasCollection /\ parseTracksThrows(doc.COLLECTION)
    THEN [ok |-> FALSE, v |-> NoLibrary, error |-> "genreString.trim is not a function"]
    ELSE [ok |-> TRUE,
          v |-> [tracks |-> IF doc.hasCollection THEN parseTracks(doc.COLLECTION, now)
                            ELSE <<>>,
                 playlists |-> IF doc.hasPlaylists
                               THEN parsePlaylists(doc.PLAYLISTS, env, draws) ELSE <<>>,
                 metadata |-> extractMetadata(doc, fileName, fileSize, now)],
          error |-> ""]

\* parseRekordboxXml(xmlString, fileName, fileSize): ok with the Library, or
\* the message of the Error thrown
parseRekordboxXml(doc, fileName, fileSize, now, env, draws) ==
    IF ~doc.wellFormed
    THEN [ok |-> FALSE, v |-> NoLibrary, error |-> "Failed to parse XML"]
    ELSE IF ~doc.hasRoot
    THEN [ok |-> FALSE, v |-> NoLibrary,
          error |-> "Invalid Rekordbox XML: Missing DJ_PLAYLISTS root element"]
    ELSE IF ~doc.hasCollection
    THEN [ok |-> FALSE, v |-> NoLibrary,
          error |-> "Invalid Rekordbox XML: Missing COLLECTION element"]
    ELSE IF parseTracksThrows(doc.COLLECTION)
    THEN [ok |-> FALSE, v |-> NoLibrary, error |-> "genreString.trim is not a function"]
    ELSE [ok |-> TRUE,
          v |-> [tracks |-> parseTracks(doc.COLLECTION, now),
                 playlists |-> IF doc.hasPlaylists
                               THEN parsePlaylists(doc.PLAYLISTS, env, draws) ELSE <<>>,
                 metadata |-> extractMetadata(doc, fileName, fileSize, now)],
          error |-> ""]

\* isValidRekordboxXml(xmlString): FALSE when parser.parse throws
isValidRekordboxXml(doc) ==
    doc.wellFormed /\ doc.hasRoot /\ doc.hasCollection /\ doc.hasProduct

(***************************************************************************)
(* The parse worker (src/workers/parse-worker.ts).                          *)
(***************************************************************************)
\* PROGRESS_STAGES
PROGRESS_STAGES ==
    [FILE_READ |-> [percent |-> 10, message |-> "Reading file..."],
     XML_PARSED |-> [percent |-> 40, message |-> "Parsing XML..."],
     TRACKS_PARSED |-> [percent |-> 70, message |-> "Processing tracks..."],
     PLAYLISTS_PARSED |-> [percent |-> 90, message |-> "Processing playlists..."],
     VALIDATION_COMPLETE |-> [percent |-> 100, message |-> "Complete!"]]

\* the messages postProgress, postSuccess and postError hand to postMessage
ProgressMessage(stage) ==
    [type |-> "PARSE_PROGRESS", percent |-> stage.percent, message |-> stage.message,
     library |-> NoLibrary, error |-> ""]
SuccessMessage(library) ==
    [type |-> "PARSE_SUCCESS", percent |-> 0, message |-> "", library |-> library,
     error |-> ""]
ErrorMessage(error) ==
    [type |-> "PARSE_ERROR", percent |-> 0, message |-> "", library |-> NoLibrary,
     error |-> error]

(***************************************************************************)
(* The analytics reducers (src/lib/analytics.ts).  A Map is kept as the     *)
(* sequence of its entries in insertion order.                              *)
(***************************************************************************)
\* map.set(key, (map.get(key) || 0) + 1)
MapCount(m, key) ==
    IF \E i \in 1..Len(m) : m[i].key = key
    THEN [i \in 1..Len(m) |-> IF m[i].key = key THEN [m[i] EXCEPT !.count = @ + 1] ELSE m[i]]
    ELSE Append(m, [key |-> key, count |-> 1])

\* Array.prototype.sort with a comparator a.k - b.k: a stable sort, ascending
\* in k; pairs are records [e, k] of an element and its sort key
RECURSIVE InsertByKey(_, _)
InsertByKey(sorted, x) ==
    IF sorted = <<>> THEN <<x>>
    ELSE IF x.k < Head(sorted).k THEN <<x>> \o sorted
    ELSE <<Head(sorted)>> \o InsertByKey(Tail(sorted), x)
RECURSIVE SortByKey(_)
SortByKey(pairs) ==
    IF pairs = <<>> THEN <<>>
    ELSE InsertByKey(SortByKey(SubSeq(pairs, 1, Len(pairs) - 1)), pairs[Len(pairs)])
Elements(pairs) == [i \in 1..Len(pairs) |-> pairs[i].e]

\* the decimal text of an integer
IntToStr(n) == IF n < 0 THEN <<"-">> \o NatToStr(0 - n) ELSE NatToStr(n)

\* text.toLowerCase()
UpperCase ==
    <<"A", "B", "C", "D", "E", "F", "G", "H", "I", "J", "K", "L", "M", "N", "O", "P",
      "Q", "R", "S", "T", "U", "V", "W", "X", "Y", "Z">>
LowerCase ==
    <<"a", "b", "c", "d", "e", "f", "g", "h", "i", "j", "k", "l", "m", "n", "o", "p",
      "q", "r", "s", "t", "u", "v", "w", "x", "y", "z">>
toLowerCase(s) ==
    [i \in 1..Len(s) |->
        IF \E j \in 1..Len(UpperCase) : UpperCase[j] = s[i]
        THEN LowerCase[CHOOSE j \in 1..Len(UpperCase) : UpperCase[j] = s[i]]
        ELSE s[i]]

\* the count taking artists that differ in letter case as different
computeTotalArtists_caseSensitive(tracks) ==
    Cardinality({tracks[i].artist.s :
                    i \in {j \in 1..Len(tracks) :
                              Truthy(tracks[j].artist) /\ tracks[j].artist.s # Unknown}})

\* computeTotalArtists(tracks)
computeTotalArtists(tracks) ==
    Cardinality({toLowerCase(tracks[i].artist.s) :
                    i \in {j \in 1..Len(tracks) :
                              Truthy(tracks[j].artist) /\ tracks[j].artist.s # Unknown}})

\* computeTotalGenres(tracks)
computeTotalGenres(tracks) ==
    Cardinality(UNION {{tracks[i].genre.a[g] : g \in 1..Len(tracks[i].genre.a)} :
                          i \in {j \in 1..Len(tracks) : Truthy(tracks[j].genre)}})

\* tracks.filter((t) => t.bpm !== undefined)
RECURSIVE TracksWithBpm(_)
TracksWithBpm(tracks) ==
    IF tracks = <<>> THEN <<>>
    ELSE IF Head(tracks).bpm # Undefined
         THEN <<Head(tracks)>> \o TracksWithBpm(Tail(tracks))
         ELSE TracksWithBpm(Tail(tracks))

\* the reduce of computeAverageBpm: the sum of (t.bpm || 0), in tenths
RECURSIVE SumBpmTenths(_)
SumBpmTenths(tracks) ==
    IF tracks = <<>> THEN 0
    ELSE LET b == Or(Head(tracks).bpm, Num(0))
         IN  b.n * 10 + b.d + SumBpmTenths(Tail(tracks))

\* Math.round(num / den) for den > 0: the nearest integer, halves upwards
MathRound(num, den) == (2 * num + den) \div (2 * den)

\* computeAverageBpm(tracks)
computeAverageBpm(tracks) ==
    LET tracksWithBpm == TracksWithBpm(tracks)
    IN  IF Len(tracksWithBpm) = 0 THEN Num(0)
        ELSE Num(MathRound(SumBpmTenths(tracksWithBpm), 10 * Len(tracksWithBpm)))

\* computeTotalDuration(tracks): totalSeconds / 3600, kept as the dividend and
\* the divisor of the quotient
RECURSIVE TotalSeconds(_)
TotalSeconds(tracks) ==
    IF tracks = <<>> THEN 0 ELSE Head(tracks).duration.n + TotalSeconds(Tail(tracks))
computeTotalDuration(tracks) == [seconds |-> TotalSeconds(tracks), per |-> 3600]

\* the loops of computeGenreDistribution: over the tags of one track, and over
\* the tracks
RECURSIVE CountTags(_, _)
CountTags(m, tags) ==
    IF tags = <<>> THEN m ELSE CountTags(MapCount(m, Head(tags)), Tail(tags))
RECURSIVE GenreMap(_, _)
GenreMap(tracks, m) ==
    IF tracks = <<>> THEN m
    ELSE GenreMap(Tail(tracks),
                  IF Truthy(Head(tracks).genre) THEN CountTags(m, Head(tracks).genre.a) ELSE m)

\* the genre entries in the order the Map holds them, not sorted
computeGenreDistribution_unsorted(tracks) ==
    LET m == GenreMap(tracks, <<>>)
    IN  [i \in 1..Len(m) |-> [genre |-> m[i].key, count |-> m[i].count]]

\* computeGenreDistribution(tracks)
computeGenreDistribution(tracks) ==
    LET m == GenreMap(tracks, <<>>)
    IN  Elements(SortByKey([i \in 1..Len(m) |->
            [e |-> [genre |-> m[i].key, count |-> m[i].count], k |-> 0 - m[i].count]]))

\* the loop rounding the bucket start up instead of down
RECURSIVE BpmBuckets_ceil(_, _, _)
BpmBuckets_ceil(tracks, bucketSize, m) ==
    IF tracks = <<>> THEN m
    ELSE BpmBuckets_ceil(Tail(tracks), bucketSize,
                    IF Truthy(Head(tracks).bpm)
                    THEN MapCount(m, ((Head(tracks).bpm.n \div bucketSize) + 1) * bucketSize)
                    ELSE m)

\* the loop of computeBpmDistribution; Math.floor(bpm / bucketSize) is the
\* floored quotient of the integer part for an integer bucketSize
RECURSIVE BpmBuckets(_, _, _)
BpmBuckets(tracks, bucketSize, m) ==
    IF tracks = <<>> THEN m
    ELSE BpmBuckets(Tail(tracks), bucketSize,
                    IF Truthy(Head(tracks).bpm)
                    THEN MapCount(m, (Head(tracks).bpm.n \div bucketSize) * bucketSize)
                    ELSE m)

BpmEntry(rangeStart, count, bucketSize) ==
    [range |-> IntToStr(rangeStart) \o <<"-">> \o IntToStr(rangeStart + bucketSize),
     count |-> count,
     rangeStart |-> rangeStart]

\* computeBpmDistribution(tracks, bucketSize)
computeBpmDistribution(tracks, bucketSize) ==
    LET m == BpmBuckets(tracks, bucketSize, <<>>)
    IN  Elements(SortByKey([i \in 1..Len(m) |->
            [e |-> BpmEntry(m[i].key, m[i].count, bucketSize), k |-> m[i].key]]))

\* computeKeyDistribution(tracks)
RECURSIVE KeyMap(_, _)
KeyMap(tracks, m) ==
    IF tracks = <<>> THEN m
    ELSE KeyMap(Tail(tracks),
                IF Truthy(Head(tracks).key) THEN MapCount(m, Head(tracks).key.s) ELSE m)
computeKeyDistribution(tracks) ==
    LET m == KeyMap(tracks, <<>>)
    IN  Elements(SortByKey([i \in 1..Len(m) |->
            [e |-> [key |-> m[i].key, count |-> m[i].count], k |-> 0 - m[i].count]]))

\* the loop leaving out the tracks without a rating
RECURSIVE RatingMap_ratedOnly(_, _)
RatingMap_ratedOnly(tracks, m) ==
    IF tracks = <<>> THEN m
    ELSE RatingMap_ratedOnly(Tail(tracks),
                             IF Head(tracks).rating = Undefined THEN m
                             ELSE MapCount(m, Or(Head(tracks).rating, Num(0))))

\* the loop of computeRatingDistribution
RECURSIVE RatingMap(_, _)
RatingMap(tracks, m) ==
    IF tracks = <<>> THEN m
    ELSE RatingMap(Tail(tracks), MapCount(m, Or(Head(tracks).rating, Num(0))))

\* computeRatingDistribution(tracks)
computeRatingDistribution(tracks) ==
    LET m == RatingMap(tracks, <<>>)
    IN  Elements(SortByKey([i \in 1..Len(m) |->
            [e |-> [rating |-> m[i].key, count |-> m[i].count],
             k |-> m[i].key.n * 10 + m[i].key.d]]))

\* date.getFullYear() and date.getMonth() of a valid Date
getFullYear(date) == date.n \div 10000
getMonth(date) == ((date.n \div 100) % 100) - 1

\* text.padStart(2, '0')
PadStart2(s) == IF Len(s) < 2 THEN <<"0">> \o s ELSE s

\* String(NaN)
TextNaN == <<"N", "a", "N">>

\* `${date.getFullYear()}-${String(date.getMonth() + 1).padStart(2, '0')}`;
\* both getters give NaN on an invalid Date
MonthKey(date) ==
    IF date.k = "date"
    THEN IntToStr(getFullYear(date)) \o <<"-">> \o PadStart2(IntToStr(getMonth(date) + 1))
    ELSE TextNaN \o <<"-">> \o TextNaN

\* new Date(date.getFullYear(), date.getMonth(), 1)
MonthStart(date) ==
    IF date.k = "date"
    THEN DateV(getFullYear(date) * 10000 + (getMonth(date) + 1) * 100 + 1)
    ELSE InvalidDate

\* the grouping loop of computeLibraryGrowth
RECURSIVE MonthMap(_, _)
MonthMap(tracks, m) ==
    IF tracks = <<>> THEN m
    ELSE LET date == Head(tracks).dateAdded
             monthKey == MonthKey(date)
         IN  MonthMap(Tail(tracks),
                IF \E i \in 1..Len(m) : m[i].month = monthKey
                THEN [i \in 1..Len(m) |->
                        IF m[i].month = monthKey THEN [m[i] EXCEPT !.count = @ + 1] ELSE m[i]]
                ELSE Append(m, [month |-> monthKey, count |-> 1, date |-> MonthStart(date)]))

\* every order of the elements of a sequence
Orders(seq) ==
    {[i \in 1..Len(seq) |-> seq[f[i]]] :
        f \in {g \in [1..Len(seq) -> 1..Len(seq)] :
                  \A a, b \in 1..Len(seq) : a # b => g[a] # g[b]}}

\* growthArray.sort((a, b) => a.date.getTime() - b.date.getTime()): the
\* arrays the sort may leave.  With valid dates it is the stable ascending
\* sort.  The difference with an invalid Date is NaN, which sort reads as
\* "equal": among at most two entries the order is kept; with more the
\* comparator is not consistent and the order is implementation-defined.
SortByDate(growthArray) ==
    IF \A i \in 1..Len(growthArray) : growthArray[i].date.k = "date"
    THEN {Elements(SortByKey([i \in 1..Len(growthArray) |->
              [e |-> growthArray[i], k |-> growthArray[i].date.n]]))}
    ELSE IF Len(growthArray) <= 2 THEN {growthArray}
    ELSE Orders(growthArray)

\* growthArray.map with the running total
RECURSIVE Cumulate(_, _)
Cumulate(items, cumulative) ==
    IF items = <<>> THEN <<>>
    ELSE <<[Head(items) EXCEPT !.count = cumulative + @]>>
         \o Cumulate(Tail(items), cumulative + Head(items).count)

\* computeLibraryGrowth(tracks): the arrays it may return
computeLibraryGrowth(tracks) ==
    {Cumulate(growthArray, 0) : growthArray \in SortByDate(MonthMap(tracks, <<>>))}

\* BPM_BUCKET_SIZE
BPM_BUCKET_SIZE == 10

\* computeAnalytics(library): the LibraryStats it may return
computeAnalytics(library) ==
    {[totalTracks |-> Len(library.tracks),
      totalArtists |-> computeTotalArtists(library.tracks),
      totalGenres |-> computeTotalGenres(library.tracks),
      totalPlaylists |-> Cardinality({i \in 1..Len(library.playlists) :
                                         library.playlists[i].type = "playlist"}),
      averageBpm |-> computeAverageBpm(library.tracks),
      totalDuration |-> computeTotalDuration(library.tracks),
      genreDistribution |-> computeGenreDistribution(library.tracks),
      bpmDistribution |-> computeBpmDistribution(library.tracks, BPM_BUCKET_SIZE),
      keyDistribution |-> computeKeyDistribution(library.tracks),
      ratingDistribution |-> computeRatingDistribution(library.tracks),
      libraryGrowth |-> growth] : growth \in computeLibraryGrowth(library.tracks)}

(***************************************************************************)
(* The top-N helpers and the duplicate finder (src/lib/analytics.ts).  A    *)
(* Track in a returned array is a reference to an element of the tracks     *)
(* array passed in, kept as its position in that array.  Each helper gives  *)
(* the value it returns and tracks, the contents of the array passed in as  *)
(* the call leaves it (Array.prototype.sort sorts in place).                *)
(***************************************************************************)
\* array.slice(0, limit)
Slice0(array, limit) ==
    IF limit >= 0
    THEN SubSeq(array, 1, IF limit < Len(array) THEN limit ELSE Len(array))
    ELSE SubSeq(array, 1, IF Len(array) + limit > 0 THEN Len(array) + limit ELSE 0)

\* the positions kept by tracks.filter((t) => t.playCount && t.playCount > 0)
RECURSIVE PlayedFrom(_, _)
PlayedFrom(tracks, i) ==
    IF i > Len(tracks) THEN <<>>
    ELSE (IF Truthy(tracks[i].playCount) /\ JsGt(tracks[i].playCount, 0)
          THEN <<i>> ELSE <<>>) \o PlayedFrom(tracks, i + 1)

\* (t.playCount || 0) as a sort key
PlayKey(t) == LET v == Or(t.playCount, Num(0)) IN v.n * 10 + v.d

\* the helper sorting the played tracks by ascending play count
getTopTracks_ascending(tracks, limit) ==
    LET filtered == PlayedFrom(tracks, 1)
        sorted == Elements(SortByKey([i \in 1..Len(filtered) |->
                      [e |-> filtered[i], k |-> PlayKey(tracks[filtered[i]])]]))
    IN  [tracks |-> tracks, top |-> Slice0(sorted, limit)]

\* the helper sorting the array it is given instead of the filtered copy
getTopTracks_inPlace(tracks, limit) ==
    LET sorted == Elements(SortByKey([i \in 1..Len(tracks) |->
                      [e |-> i, k |-> 0 - PlayKey(tracks[i])]]))
    IN  [tracks |-> [i \in 1..Len(tracks) |-> tracks[sorted[i]]],
         top |-> Slice0(SelectSeq(sorted, LAMBDA i :
                                   Truthy(tracks[i].playCount)
                                   /\ JsGt(tracks[i].playCount, 0)), limit)]

\* getTopTracks(tracks, limit)
getTopTracks(tracks, limit) ==
    LET filtered == PlayedFrom(tracks, 1)
        sorted == Elements(SortByKey([i \in 1..Len(filtered) |->
                      [e |-> filtered[i], k |-> 0 - PlayKey(tracks[filtered[i]])]]))
    IN  [tracks |-> tracks, top |-> Slice0(sorted, limit)]

\* the loop of getTopArtists
RECURSIVE ArtistMap(_, _)
ArtistMap(tracks, m) ==
    IF tracks = <<>> THEN m
    ELSE ArtistMap(Tail(tracks),
                   IF Truthy(Head(tracks).artist) /\ Head(tracks).artist.s # Unknown
                   THEN MapCount(m, Head(tracks).artist.s) ELSE m)

\* getTopArtists(tracks, limit)
getTopArtists(tracks, limit) ==
    LET m == ArtistMap(tracks, <<>>)
        sorted == Elements(SortByKey([i \in 1..Len(m) |->
                      [e |-> [artist |-> m[i].key, count |-> m[i].count],
                       k |-> 0 - m[i].count]]))
    IN  [tracks |-> tracks, top |-> Slice0(sorted, limit)]

\* `${track.artist.toLowerCase().trim()}|||${track.title.toLowerCase().trim()}`
DuplicateKey(track) ==
    Trim(toLowerCase(track.artist.s)) \o <<"|", "|", "|">>
        \o Trim(toLowerCase(track.title.s))

\* trackGroups.get(key).push(track), after trackGroups.set(key, []) for a new key
GroupPush(m, key, i) ==
    IF \E j \in 1..Len(m) : m[j].key = key
    THEN [j \in 1..Len(m) |->
             IF m[j].key = key THEN [m[j] EXCEPT !.group = Append(@, i)] ELSE m[j]]
    ELSE Append(m, [key |-> key, group |-> <<i>>])

\* the loop of findDuplicateTracks from position i on
RECURSIVE TrackGroups(_, _, _)
TrackGroups(tracks, i, m) ==
    IF i > Len(tracks) THEN m
    ELSE TrackGroups(tracks, i + 1,
             IF \/ ~Truthy(tracks[i].artist)
                \/ ~Truthy(tracks[i].title)
                \/ tracks[i].artist.s = Unknown
                \/ tracks[i].title.s = Unknown
             THEN m
             ELSE GroupPush(m, DuplicateKey(tracks[i]), i))

\* findDuplicateTracks(tracks)
findDuplicateTracks(tracks) ==
    LET m == TrackGroups(tracks, 1, <<>>)
        duplicateGroups == SelectSeq([j \in 1..Len(m) |-> m[j].group],
                                     LAMBDA group : Len(group) > 1)
    IN  [tracks |-> tracks,
         groups |-> Elements(SortByKey([j \in 1..Len(duplicateGroups) |->
                        [e |-> duplicateGroups[j], k |-> 0 - Len(duplicateGroups[j])]]))]

(***************************************************************************)

(* Bounds and the inputs drawn from them.                                   *)
(***************************************************************************)
MaxTracks == 2
MaxNodes == 3
MaxRand == 2
MaxTick == 1

\* the time value new Date() returns during a run
Clock == {20240615}

TextAbc == <<"a", "b", "c">>

\* raw attribute texts tried for each numeric attribute
NumTexts ==
    {Undefined, Str(<<>>), Str(<<"0">>), Str(<<"-", "1">>), Str(TextAbc),
     Str(<<"3">>), Str(<<"6">>), Str(<<"1", ".", "5">>), Str(<<" ", "4">>),
     Str(<<"1", "8", "9", "9">>), Str(<<"1", "9", "0", "0">>),
     Str(<<"2", "1", "0", "0">>), Str(<<"2", "1", "0", "1">>)}
NumFields ==
    {"AverageBpm", "TotalTime", "PlayCount", "Rating", "TrackNumber", "Year",
     "BitRate", "SampleRate"}
DateTexts ==
    {Undefined, Str(<<>>), Str(TextAbc), Str(<<"2", "0", "2", "3", "-", "0", "2">>),
     Str(<<"2", "0", "2", "3", "-", "1", "3", "-", "0", "1">>)}
TextFields ==
    {"Name", "Artist", "Album", "Genre", "Tonality", "Location", "Comments",
     "Label", "Remixer", "Composer", "Grouping"}
TextTexts == {Undefined, Str(<<>>)}
IdTexts == {Undefined, Str(<<>>)}

\* a track element with every attribute present and well formed
BaseTrack ==
    [TrackID |-> Str(<<"1">>), Name |-> Str(<<"T">>), Artist |-> Str(<<"A">>),
     Album |-> Str(<<"B">>), Genre |-> Str(<<"H", ";", " ", "T">>),
     AverageBpm |-> Str(<<"1", "2", "8", ".", "5">>),
     TotalTime |-> Str(<<"3", "0", "0">>),
     DateAdded |-> Str(<<"2", "0", "2", "3", "-", "0", "1", "-", "0", "5">>),
     Tonality |-> Str(<<"5", "A">>), PlayCount |-> Str(<<"3">>),
     Rating |-> Str(<<"3">>), Location |-> Str(<<"/", "f">>),
     TrackNumber |-> Str(<<"1">>), Year |-> Str(<<"2", "0", "0", "0">>),
     Comments |-> Str(<<"c">>), BitRate |-> Str(<<"3", "2", "0">>),
     SampleRate |-> Str(<<"4", "4", "1", "0", "0">>), Label |-> Str(<<"L">>),
     Remixer |-> Str(<<"R">>), Composer |-> Str(<<"C">>), Grouping |-> Str(<<"G">>)]

\* well-formed track elements, differing in their TrackID
PlainTracks == {BaseTrack, [BaseTrack EXCEPT !.TrackID = Str(<<"2">>)]}

\* track elements with one attribute missing, empty or malformed
DeviantTracks ==
    {[BaseTrack EXCEPT ![f] = v] : f \in NumFields, v \in NumTexts}
    \cup {[BaseTrack EXCEPT !.DateAdded = v] : v \in DateTexts}
    \cup {[BaseTrack EXCEPT ![f] = v] : f \in TextFields, v \in TextTexts}
    \cup {[BaseTrack EXCEPT !.TrackID = v] : v \in IdTexts}

PlainSeqs == UNION {[1..n -> PlainTracks] : n \in 0..MaxTracks}

\* the TRACK arrays of a collection: at most MaxTracks elements, at most one
\* of them deviant
TrackSeqs ==
    PlainSeqs \cup {[ps EXCEPT ![i] = dv] : <<ps, i>> \in {<<q, j>> \in PlainSeqs \X (1..MaxTracks) : j <= Len(q)},
                                          dv \in DeviantTracks}

\* node trees: sets of at most MaxNodes non-root paths closed under parent and
\* elder sibling
AllPaths == UNION {[1..l -> 1..MaxNodes] : l \in 1..MaxNodes}
ParentPath(q) == SubSeq(q, 1, Len(q) - 1)
Grow(S) ==
    {S \cup {q} : q \in {x \in AllPaths :
                          /\ x \notin S
                          /\ ParentPath(x) \in S \cup {<<>>}
                          /\ (x[Len(x)] = 1
                              \/ Append(ParentPath(x), x[Len(x)] - 1) \in S)}}
RECURSIVE ShapesOfSize(_)
ShapesOfSize(k) ==
    IF k = 0 THEN {{}} ELSE UNION {Grow(S) : S \in ShapesOfSize(k - 1)}
Shapes == UNION {ShapesOfSize(k) : k \in 0..MaxNodes}

TextZero == <<"0">>
RootNode ==
    [Name |-> Str(<<"R", "O", "O", "T">>), Type |-> Str(TextZero), Count |-> Undefined,
     Entries |-> Undefined, TRACK |-> <<>>]
\* the attribute combinations tried for a node: a folder with a count, a
\* folder carrying a membership entry and no name, a playlist reporting
\* Entries that differ from its two members, a playlist with no Type marker,
\* an empty name and a Count of "0"
NodeProfiles ==
    <<[Name |-> Str(<<"A">>), Type |-> Str(TextZero), Count |-> Str(<<"2">>),
       Entries |-> Undefined, TRACK |-> <<>>],
      [Name |-> Undefined, Type |-> Str(TextZero), Count |-> Undefined,
       Entries |-> Undefined, TRACK |-> <<[Key |-> Str(<<"9">>)]>>],
      [Name |-> Str(<<"C">>), Type |-> Str(<<"1">>), Count |-> Undefined,
       Entries |-> Str(<<"5">>),
       TRACK |-> <<[Key |-> Str(<<"1">>)], [Key |-> Str(<<"2">>)]>>],
      [Name |-> Str(<<>>), Type |-> Undefined, Count |-> Str(TextZero),
       Entries |-> Str(<<"3">>), TRACK |-> <<>>]>>

\* p comes before q in document order
PathLess(p, q) ==
    \/ Len(p) < Len(q) /\ SubSeq(q, 1, Len(p)) = p
    \/ \E i \in 1..Len(p) :
          /\ i <= Len(q)
          /\ SubSeq(p, 1, i - 1) = SubSeq(q, 1, i - 1)
          /\ p[i] < q[i]

\* the position of node q of shape S in document order
DocIndex(S, q) == Cardinality({p \in S : PathLess(p, q)}) + 1

\* the ways profiles are given to the nodes of a shape: every node a playlist
\* with members, or the profiles in turn along the document order
ProfileAssignments(S) ==
    {[q \in S |-> NodeProfiles[3]]}
    \cup {[q \in S |-> NodeProfiles[((DocIndex(S, q) + c) % Len(NodeProfiles)) + 1]] :
            c \in 1..Len(NodeProfiles)}

NodeTrees ==
    UNION {{[q \in S \cup {<<>>} |-> IF q = <<>> THEN RootNode ELSE g[q]] :
              g \in ProfileAssignments(S)} : S \in Shapes}

\* the PLAYLISTS sections: without a NODE element, or with a root NODE
PlaylistsNodes ==
    {[hasNode |-> FALSE, nodes |-> [q \in {<<>>} |-> RootNode]]}
    \cup {[hasNode |-> TRUE, nodes |-> f] : f \in NodeTrees}

\* what the random source and the clock may give to the generateId calls of
\* one run, one call per non-root node: crypto.randomUUID() gives a value it
\* has not given before; Math.random() may repeat one, and the clock never
\* runs backwards
DrawsFor(S, env) ==
    IF env = "crypto"
    THEN {f \in [S -> [t : {0}, r : 1..Cardinality(S)]] :
            \A p \in S, q \in S : p # q => f[p].r # f[q].r}
    ELSE {f \in [S -> [t : 0..MaxTick, r : 1..MaxRand]] :
            \A p \in S, q \in S : PathLess(p, q) => f[p].t <= f[q].t}
Envs == {"crypto", "fallback"}
NonRoot(nodes) == DOMAIN nodes \ {<<>>}

\* the documents handed to the parser
NoPlaylists == [hasNode |-> FALSE, nodes |-> [q \in {<<>>} |-> RootNode]]
BaseDoc(tracks) ==
    [wellFormed |-> TRUE, hasRoot |-> TRUE, hasCollection |-> TRUE, hasProduct |-> TRUE,
     PRODUCT |-> [Version |-> Str(<<"7">>), Company |-> Str(<<"P">>)],
     COLLECTION |-> [Entries |-> Str(<<"2">>), TRACK |-> tracks],
     hasPlaylists |-> FALSE, PLAYLISTS |-> NoPlaylists]
\* the tree Folder A { Folder B { Playlist C } } and two sibling playlists
ScenarioTree ==
    [hasNode |-> TRUE,
     nodes |-> [q \in {<<>>, <<1>>, <<1, 1>>, <<1, 1, 1>>} |->
                  IF q = <<>> THEN RootNode
                  ELSE IF Len(q) = 3 THEN NodeProfiles[3] ELSE NodeProfiles[1]]]
SiblingTree ==
    [hasNode |-> TRUE,
     nodes |-> [q \in {<<>>, <<1>>, <<2>>} |->
                  IF q = <<>> THEN RootNode ELSE NodeProfiles[3]]]
\* a folder reporting no count and carrying a membership entry, next to a
\* playlist reporting a Count of "0" and Entries that differ from it
CountTree ==
    [hasNode |-> TRUE,
     nodes |-> [q \in {<<>>, <<1>>, <<2>>} |->
                  IF q = <<>> THEN RootNode
                  ELSE IF q = <<1>> THEN NodeProfiles[2] ELSE NodeProfiles[4]]]
OneTrack == <<BaseTrack>>
\* <TRACK TrackID="1" ...><Genre>5</Genre></TRACK>: the decoder, with
\* parseTagValue on and no attribute prefix, gives Genre the number 5
GenreElementTrack == <<[BaseTrack EXCEPT !.Genre = Num(5)]>>
Docs ==
    {BaseDoc(ts) : ts \in TrackSeqs}
    \cup {[BaseDoc(OneTrack) EXCEPT !.wellFormed = FALSE],
          [BaseDoc(OneTrack) EXCEPT !.hasRoot = FALSE],
          [BaseDoc(OneTrack) EXCEPT !.hasCollection = FALSE],
          [BaseDoc(OneTrack) EXCEPT !.hasProduct = FALSE],
          [BaseDoc(OneTrack) EXCEPT !.PRODUCT.Version = Undefined],
          [BaseDoc(OneTrack) EXCEPT !.COLLECTION.Entries = Undefined],
          [BaseDoc(OneTrack) EXCEPT !.COLLECTION.Entries = Str(TextAbc)],
          BaseDoc(GenreElementTrack)}
    \cup {[BaseDoc(OneTrack) EXCEPT !.hasPlaylists = TRUE, !.PLAYLISTS = pn] :
            pn \in {NoPlaylists, ScenarioTree, SiblingTree, CountTree}}

\* the File objects posted to the worker; readable is FALSE when file.text()
\* rejects
NoFile == [doc |-> BaseDoc(<<>>), name |-> Undefined, size |-> Undefined, readable |-> FALSE]
Files ==
    {[doc |-> d, name |-> Str(<<"f">>), size |-> Num(100), readable |-> TRUE] : d \in Docs}
    \cup {[doc |-> BaseDoc(OneTrack), name |-> Str(<<"f">>), size |-> Num(100),
           readable |-> FALSE]}
WorkerMessages ==
    {[type |-> "PARSE_FILE", file |-> f] : f \in Files}
    \cup {[type |-> "OTHER", file |-> NoFile]}

(***************************************************************************)
(* Candidate values handed to validateLibrary directly (not necessarily     *)
(* produced by the parser).                                                 *)
(***************************************************************************)
MaxPlaylists == 2

DateText == <<"2", "0", "2", "3", "-", "0", "1", "-", "0", "5">>
BaseCandTrack ==
    [id |-> Str(<<"1">>), title |-> Str(<<"T">>), artist |-> Str(<<"A">>),
     album |-> Str(<<"B">>), genre |-> Arr(<< <<"H">> >>), bpm |-> Frac(128, 5),
     key |-> Str(<<"5", "A">>), rating |-> Num(3), playCount |-> Num(3),
     duration |-> Num(300), dateAdded |-> DateV(20230105), location |-> Str(<<"/", "f">>),
     trackNumber |-> Num(1), year |-> Num(2000), comments |-> Str(<<"c">>),
     tonality |-> Str(<<"5", "A">>), bitRate |-> Num(320), sampleRate |-> Num(44100),
     label |-> Str(<<"L">>), remixer |-> Str(<<"R">>), composer |-> Str(<<"C">>),
     grouping |-> Str(<<"G">>)]
CandTextFields ==
    {"title", "artist", "album", "key", "location", "comments", "tonality", "label",
     "remixer", "composer", "grouping"}
CandNumFields ==
    {"bpm", "rating", "playCount", "duration", "trackNumber", "year", "bitRate",
     "sampleRate"}
CandNumValues ==
    {Undefined, NaN, Num(0), Num(0 - 1), Num(6), Frac(1, 5), Num(1899), Num(1900),
     Num(2100), Num(2101)}
CandDateValues == {Undefined, Str(DateText), Str(TextAbc), Str(<<>>), InvalidDate}

PlainCandTracks == {BaseCandTrack, [BaseCandTrack EXCEPT !.id = Str(<<"2">>)]}
DeviantCandTracks ==
    {[BaseCandTrack EXCEPT ![f] = v] : f \in CandNumFields, v \in CandNumValues}
    \cup {[BaseCandTrack EXCEPT ![f] = v] : f \in CandTextFields, v \in {Undefined, Str(<<>>)}}
    \cup {[BaseCandTrack EXCEPT !.dateAdded = v] : v \in CandDateValues}
    \cup {[BaseCandTrack EXCEPT !.genre = v] : v \in {Undefined, Arr(<<>>)}}
    \cup {[BaseCandTrack EXCEPT !.id = v] : v \in {Undefined, Num(1)}}
PlainCandSeqs == UNION {[1..n -> PlainCandTracks] : n \in 0..MaxTracks}
CandTrackSeqs ==
    PlainCandSeqs
    \cup {[ps EXCEPT ![i] = dv] :
            <<ps, i>> \in {<<q, j>> \in PlainCandSeqs \X (1..MaxTracks) : j <= Len(q)},
            dv \in DeviantCandTracks}

CandIds == {Str(<<"a">>), Str(<<"b">>)}
CandParentIds == CandIds \cup {Undefined, Str(<<"z">>)}
BaseCandPlaylist ==
    [id |-> Str(<<"a">>), name |-> Str(<<"N">>), tracks |-> Arr(<< <<"1">> >>),
     parentId |-> Undefined, type |-> "playlist", count |-> Num(1)]
\* playlists that differ in their id and their parent reference only
LinkedCandPlaylists ==
    {[BaseCandPlaylist EXCEPT !.id = i, !.parentId = pi] : i \in CandIds, pi \in CandParentIds}
CandCounts ==
    {Undefined, NaN, Num(0), Num(0 - 1), Frac(1, 5), Str(<<"5">>), Str(TextAbc),
     Str(<<"-", "2">>), Str(<<>>)}
DeviantCandPlaylists ==
    {[BaseCandPlaylist EXCEPT !.count = c] : c \in CandCounts}
    \cup {[BaseCandPlaylist EXCEPT !.type = "folder"],
          [BaseCandPlaylist EXCEPT !.type = "other"],
          [BaseCandPlaylist EXCEPT !.name = Undefined],
          [BaseCandPlaylist EXCEPT !.tracks = Undefined],
          [BaseCandPlaylist EXCEPT !.parentId = Str(<<>>)],
          [BaseCandPlaylist EXCEPT !.id = Undefined]}
CandPlaylistSeqs ==
    UNION {[1..n -> LinkedCandPlaylists] : n \in 0..MaxPlaylists}
    \cup {<<dp>> : dp \in DeviantCandPlaylists}

BaseCandMetadata ==
    [version |-> Str(<<"7">>), company |-> Str(<<"P">>), totalTracks |-> Num(2),
     parsedAt |-> DateV(20240615), fileName |-> Str(<<"f">>), fileSize |-> Num(100)]
CandMetadatas ==
    {[BaseCandMetadata EXCEPT !.totalTracks = v] :
        v \in {Undefined, NaN, Num(0 - 1), Str(<<"5">>), Str(TextAbc), Str(<<"-", "2">>)}}
    \cup {[BaseCandMetadata EXCEPT !.parsedAt = v] : v \in CandDateValues}
    \cup {[BaseCandMetadata EXCEPT !.fileSize = v] : v \in {Undefined, Num(0), Frac(1, 5)}}
    \cup {[BaseCandMetadata EXCEPT !.fileName = Undefined],
          [BaseCandMetadata EXCEPT !.version = Undefined]}

Candidates ==
    {[tracks |-> ts, playlists |-> <<>>, metadata |-> BaseCandMetadata] : ts \in CandTrackSeqs}
    \cup {[tracks |-> <<>>, playlists |-> ps, metadata |-> BaseCandMetadata] :
            ps \in CandPlaylistSeqs}
    \cup {[tracks |-> <<>>, playlists |-> <<>>, metadata |-> m] : m \in CandMetadatas}

(***************************************************************************)
(* Inputs of the genre splitter and of the analytics reducers.              *)
(***************************************************************************)
MaxGenreLen == 4
MaxStatTracks == 3

\* the raw Genre attributes: absent, or any text of at most MaxGenreLen
\* characters over two letters, the separator and the space
GenreChars == {"a", "b", ";", " "}
GenreTexts ==
    {Undefined} \cup {Str(s) : s \in UNION {[1..n -> GenreChars] : n \in 0..MaxGenreLen}}

\* candidate tracks differing in genre, bpm, rating, dateAdded, artist and key
StatCands ==
    {[BaseCandTrack EXCEPT !.dateAdded = Str(DateText)],
     [BaseCandTrack EXCEPT !.id = Str(<<"2">>), !.artist = Str(<<"a">>),
                           !.genre = Arr(<< <<"H">>, <<"T">> >>), !.bpm = Num(120),
                           !.rating = Undefined,
                           !.dateAdded = Str(<<"2", "0", "2", "3", "-", "0", "1", "-", "2", "0">>)],
     [BaseCandTrack EXCEPT !.id = Str(<<"3">>), !.artist = Undefined, !.genre = Undefined,
                           !.bpm = Undefined, !.rating = Num(0), !.key = Str(<<>>),
                           !.dateAdded = Str(<<"2", "0", "2", "3", "-", "0", "2">>)],
     [BaseCandTrack EXCEPT !.id = Str(<<"4">>), !.genre = Arr(<< <<"T">>, <<"T">> >>),
                           !.bpm = Frac(129, 9), !.rating = Num(5), !.key = Str(<<"8", "B">>),
                           !.dateAdded = Str(<<"2", "0", "2", "2", "-", "1", "2", "-", "3", "1">>)],
     [BaseCandTrack EXCEPT !.id = Str(<<"5">>), !.bpm = Frac(0, 5),
                           !.dateAdded = Str(TextAbc)],
     [BaseCandTrack EXCEPT !.id = Str(<<"6">>), !.artist = Str(<<"B">>),
                           !.genre = Arr(<< <<"T">> >>), !.bpm = Num(130),
                           !.rating = Undefined, !.duration = Num(1800),
                           !.dateAdded = Str(<<"2", "0", "2", "3", "-", "0", "2", "-", "1", "0">>)]}

\* the Tracks validateLibrary returns for them
StatTracks == {trackSchema(c).v : c \in {x \in StatCands : trackSchema(x).ok}}
StatTrackSeqs == UNION {[1..n -> StatTracks] : n \in 0..MaxStatTracks}
StatPlaylists ==
    <<[BaseCandPlaylist EXCEPT !.type = "folder", !.tracks = Arr(<<>>)],
      [BaseCandPlaylist EXCEPT !.id = Str(<<"b">>), !.parentId = Str(<<"a">>)]>>
StatLibraries ==
    {validateLibrary([tracks |-> <<>>, playlists |-> StatPlaylists,
                      metadata |-> BaseCandMetadata]).v}
\* the bucket sizes computeBpmDistribution is called with
BucketSizes == {1, 3, BPM_BUCKET_SIZE}

\* candidate tracks differing in artist, title and playCount: two that differ
\* in letter case and surrounding spaces only, tracks without an artist or a
\* title, and two whose artist and title hold the characters of the separator
TopCands ==
    {BaseCandTrack,
     [BaseCandTrack EXCEPT !.id = Str(<<"2">>), !.artist = Str(<<"a", " ">>),
                           !.title = Str(<<" ", "t">>), !.playCount = Num(1)],
     [BaseCandTrack EXCEPT !.id = Str(<<"3">>), !.artist = Undefined,
                           !.playCount = Undefined],
     [BaseCandTrack EXCEPT !.id = Str(<<"4">>), !.artist = Str(<<>>),
                           !.playCount = Num(0)],
     [BaseCandTrack EXCEPT !.id = Str(<<"5">>), !.title = Undefined],
     [BaseCandTrack EXCEPT !.id = Str(<<"6">>), !.artist = Str(<<"B">>),
                           !.playCount = Num(5)],
     [BaseCandTrack EXCEPT !.id = Str(<<"7">>), !.artist = Str(<<"A", "|">>),
                           !.playCount = Num(1)],
     [BaseCandTrack EXCEPT !.id = Str(<<"8">>), !.title = Str(<<"|", "T">>),
                           !.playCount = Undefined]}
TopTracks == {trackSchema(c).v : c \in {x \in TopCands : trackSchema(x).ok}}
TopTrackSeqs == UNION {[1..n -> TopTracks] : n \in 0..MaxStatTracks}
\* the limits the helpers are called with; 10 is the default
Limits == {0, 1, 2, 10}

(***************************************************************************)
(* Inputs of the upload page.                                               *)
(***************************************************************************)
MaxUploads == 2

\* MAX_FILE_SIZE
MAX_FILE_SIZE == 100 * 1024 * 1024

\* text.endsWith(suffix)
EndsWith(s, suffix) ==
    /\ Len(s) >= Len(suffix)
    /\ SubSeq(s, Len(s) - Len(suffix) + 1, Len(s)) = suffix

\* validateFile(file) of the upload zone: the error it sets, "none" when it
\* returns true
validateFile(f) ==
    IF ~EndsWith(toLowerCase(f.name.s), <<".", "x", "m", "l">>) THEN "type"
    ELSE IF f.size.n > MAX_FILE_SIZE THEN "size"
    ELSE "none"

\* the files the user may drop: two that parse to different Libraries, one
\* without the DJ_PLAYLISTS root, one that cannot be read, one that is not
\* named .xml and one over the size limit
XmlName == Str(<<"f", ".", "X", "M", "L">>)
PageFiles ==
    {[doc |-> BaseDoc(OneTrack), name |-> XmlName, size |-> Num(100), readable |-> TRUE],
     [doc |-> BaseDoc(<<>>), name |-> XmlName, size |-> Num(100), readable |-> TRUE],
     [doc |-> [BaseDoc(OneTrack) EXCEPT !.hasRoot = FALSE], name |-> XmlName,
      size |-> Num(100), readable |-> TRUE],
     [doc |-> BaseDoc(OneTrack), name |-> XmlName, size |-> Num(100), readable |-> FALSE]}
DroppedFiles ==
    PageFiles
    \cup {[doc |-> BaseDoc(OneTrack), name |-> Str(<<"f">>), size |-> Num(100),
           readable |-> TRUE],
          [doc |-> BaseDoc(OneTrack), name |-> XmlName, size |-> Num(MAX_FILE_SIZE + 1),
           readable |-> TRUE]}

\* what the store holds when the page is opened: nothing, or the Library of
\* an earlier visit
NothingStored == [has |-> FALSE, lib |-> NoLibrary]
Stored(library) == [has |-> TRUE, lib |-> library]
StoredBefore == {NothingStored} \cup {Stored(l) : l \in StatLibraries}

(***************************************************************************)
(* State.                                                                   *)
(*   wpc, file, outbox : the worker: its position ("idle", or "reading"     *)
(*       while file.text() is pending), the File of the request in hand,    *)
(*       and the messages posted for that request, in order                 *)
(*   pnode, penv, pdraws, pout, pdone : a call of parsePlaylists: its       *)
(*       argument, the environment of generateId, and the returned sequence *)
(*   cand, vres, vres2, vpc : a call of validateLibrary on cand, and the    *)
(*       validation of its own output                                       *)
(*   dlist, dstart, depth, currentId, dpc : a call of getPlaylistDepth on   *)
(*       playlist dstart of dlist: the locals of its loop                   *)
(*   gin, gout, gdone : a call of parseGenres: its argument and its result  *)
(*   xdoc, xres, xdone : a call of parseRekordboxXml: the decoded document  *)
(*   xvalid : what isValidRekordboxXml returns on the same document         *)
(*       and what it returned or threw                                      *)
(*   slib, sbucket, stats, sbpm, sdone : a call of computeAnalytics on slib *)
(*       and of computeBpmDistribution on its tracks with bucket size       *)
(*       sbucket: the LibraryStats and the buckets returned                 *)
(*   targ, tlimit, tlib, topTracks, topArtists, duplicates, tstats, tdone : *)
(*       calls of getTopTracks, getTopArtists, findDuplicateTracks and      *)
(*       computeAnalytics on the Library targ with limit tlimit: what they  *)
(*       returned, and tlib, the Library as the calls leave it              *)
(*   the upload page and the dashboard:                                     *)
(*   pmounted : the upload page is open                                     *)
(*   state, progress : the React state of HomePage                          *)
(*   zerror : the error shown by the upload zone ("none", "type", "size")   *)
(*   requested, answered : the number of PARSE_FILE requests posted and of  *)
(*       terminal notifications handled by worker.onmessage                 *)
(*   wq, wreading : the page's worker: the requests not yet dispatched and  *)
(*       the Files whose text() is pending                                  *)
(*   wstarted, wfailed, wterminated : the worker has run its handler; it    *)
(*       has raised an error event; it has been terminated                  *)
(*   chan : the messages posted by the worker and not yet handled           *)
(*   saving, psave : the Libraries handed to saveLibrary and not yet        *)
(*       settled; how the last saveLibrary ended                            *)
(*   preceived : the Library of the last PARSE_SUCCESS handled              *)
(*   store : the content of the key-value store                             *)
(*   timer : the navigation timers scheduled and not yet fired              *)
(*   route, dloaded, dashpc : the page shown, what the dashboard's           *)
(*       getLibrary returned, and the dashboard's position                  *)
(***************************************************************************)
VARIABLES wpc, file, outbox, pnode, penv, pdraws, pout, pdone,
          cand, vres, vres2, vpc, dlist, dstart, depth, currentId, dpc,
          gin, gout, gdone, xdoc, xres, xdone, xvalid, slib, sbucket, stats, sbpm, sdone,
          targ, tlimit, tlib, topTracks, topArtists, duplicates, tstats, tdone,
          pmounted, state, progress, zerror, requested, answered, wq, wreading,
          wstarted, wfailed, wterminated, chan, saving, psave, preceived, store,
          timer, route, dloaded, dashpc

workerVars == <<wpc, file, outbox>>
treeVars == <<pnode, penv, pdraws, pout, pdone>>
valVars == <<cand, vres, vres2, vpc>>
walkVars == <<dlist, dstart, depth, currentId, dpc>>
genreVars == <<gin, gout, gdone>>
parseVars == <<xdoc, xres, xdone, xvalid>>
statVars == <<slib, sbucket, stats, sbpm, sdone>>
topVars == <<targ, tlimit, tlib, topTracks, topArtists, duplicates, tstats, tdone>>
pageVars == <<pmounted, state, progress, zerror, requested, answered, wq, wreading,
              wstarted, wfailed, wterminated, chan, saving, psave, preceived, store,
              timer, route, dloaded, dashpc>>
laterVars == <<topVars, pageVars>>
pureVars == <<genreVars, parseVars, statVars, laterVars>>
vars == <<wpc, file, outbox, pnode, penv, pdraws, pout, pdone,
          cand, vres, vres2, vpc, dlist, dstart, depth, currentId, dpc,
          gin, gout, gdone, xdoc, xres, xdone, xvalid, slib, sbucket, stats, sbpm, sdone,
          targ, tlimit, tlib, topTracks, topArtists, duplicates, tstats, tdone,
          pmounted, state, progress, zerror, requested, answered, wq, wreading,
          wstarted, wfailed, wterminated, chan, saving, psave, preceived, store,
          timer, route, dloaded, dashpc>>

NoResult == [ok |-> FALSE, v |-> NoLibrary]

Init ==
    /\ wpc = "idle"
    /\ file = NoFile
    /\ outbox = <<>>
    /\ pnode = NoPlaylists
    /\ penv = "crypto"
    /\ pdraws = <<>>
    /\ pout = <<>>
    /\ pdone = FALSE
    /\ cand = NoLibrary
    /\ vres = NoResult
    /\ vres2 = NoResult
    /\ vpc = "idle"
    /\ dlist = <<>>
    /\ dstart = 0
    /\ depth = 0
    /\ currentId = Undefined
    /\ dpc = "idle"
    /\ gin = Undefined
    /\ gout = Undefined
    /\ gdone = FALSE
    /\ xdoc = BaseDoc(<<>>)
    /\ xres = [ok |-> FALSE, v |-> NoLibrary, error |-> ""]
    /\ xdone = FALSE
    /\ xvalid = FALSE
    /\ slib = NoLibrary
    /\ sbucket = BPM_BUCKET_SIZE
    /\ stats \in computeAnalytics(NoLibrary)
    /\ sbpm = <<>>
    /\ sdone = FALSE
    /\ targ = NoLibrary
    /\ tlimit = 0
    /\ tlib = NoLibrary
    /\ topTracks = <<>>
    /\ topArtists = <<>>
    /\ duplicates = <<>>
    /\ tstats \in computeAnalytics(NoLibrary)
    /\ tdone = FALSE
    /\ pmounted = FALSE
    /\ state = "idle"
    /\ progress = 0
    /\ zerror = "none"
    /\ requested = 0
    /\ answered = 0
    /\ wq = <<>>
    /\ wreading = <<>>
    /\ wstarted = FALSE
    /\ wfailed = FALSE
    /\ wterminated = FALSE
    /\ chan = <<>>
    /\ saving = <<>>
    /\ psave = "none"
    /\ preceived = NoLibrary
    /\ store = NothingStored
    /\ timer = 0
    /\ route = "home"
    /\ dloaded = NothingStored
    /\ dashpc = "unmounted"

\* the handler posting the Library as parsed when its validation fails
WorkerRun_partial(f, now, env, draws) ==
    LET library == parseRekordboxXml(f.doc, f.name, f.size, now, env, draws)
        validatedLibrary == validateLibrary(library.v)
    IN  <<ProgressMessage(PROGRESS_STAGES.XML_PARSED)>>
        \o (IF ~library.ok THEN <<ErrorMessage(library.error)>>
            ELSE <<ProgressMessage(PROGRESS_STAGES.TRACKS_PARSED)>>
                 \o (IF ~validatedLibrary.ok THEN <<SuccessMessage(library.v)>>
                     ELSE <<ProgressMessage(PROGRESS_STAGES.VALIDATION_COMPLETE),
                            SuccessMessage(validatedLibrary.v)>>))

\* what the handler posts once file.text() has resolved: stage 2, the parse,
\* stage 3, the validation, stage 4 and the result, or the error caught
WorkerRun(f, now, env, draws) ==
    LET library == parseRekordboxXml(f.doc, f.name, f.size, now, env, draws)
        validatedLibrary == validateLibrary(library.v)
    IN  <<ProgressMessage(PROGRESS_STAGES.XML_PARSED)>>
        \o (IF ~library.ok THEN <<ErrorMessage(library.error)>>
            ELSE <<ProgressMessage(PROGRESS_STAGES.TRACKS_PARSED)>>
                 \o (IF ~validatedLibrary.ok THEN <<ErrorMessage("ZodError")>>
                     ELSE <<ProgressMessage(PROGRESS_STAGES.VALIDATION_COMPLETE),
                            SuccessMessage(validatedLibrary.v)>>))

\* the message handler up to its await: an unknown type is answered with an
\* error, a PARSE_FILE request posts stage 1 and starts reading the file
OnMessage ==
    /\ wpc = "idle"
    /\ outbox = <<>>
    /\ \E m \in WorkerMessages :
          IF m.type # "PARSE_FILE"
          THEN /\ outbox' = <<ErrorMessage("Unknown message type")>>
               /\ file' = NoFile
               /\ wpc' = "idle"
          ELSE /\ outbox' = <<ProgressMessage(PROGRESS_STAGES.FILE_READ)>>
               /\ file' = m.file
               /\ wpc' = "reading"
    /\ UNCHANGED <<treeVars, valVars, walkVars>>
    /\ UNCHANGED pureVars

\* for each File, what the handler may post after the read, over the clock,
\* the environment and the draws of generateId
HandlerOutcomes ==
    [f \in Files |->
        UNION {{WorkerRun(f, now, env, draws) :
                   draws \in DrawsFor(NonRoot(f.doc.PLAYLISTS.nodes), env)} :
                  now \in Clock, env \in Envs}]

\* file.text() resolves: the rest of the handler runs to its end
ReadResolved ==
    /\ wpc = "reading"
    /\ file.readable
    /\ \E posted \in HandlerOutcomes[file] : outbox' = outbox \o posted
    /\ wpc' = "idle"
    /\ UNCHANGED <<file, treeVars, valVars, walkVars>>
    /\ UNCHANGED pureVars

\* file.text() rejects: the catch block posts the error
ReadRejected ==
    /\ wpc = "reading"
    /\ ~file.readable
    /\ outbox' = Append(outbox, ErrorMessage("Unknown parsing error"))
    /\ wpc' = "idle"
    /\ UNCHANGED <<file, treeVars, valVars, walkVars>>
    /\ UNCHANGED pureVars

\* the page's worker.onmessage has handled the notifications of the request
\* that ended; the worker waits for the next request
TakeNotifications ==
    /\ wpc = "idle"
    /\ outbox # <<>>
    /\ outbox' = <<>>
    /\ file' = NoFile
    /\ UNCHANGED wpc
    /\ UNCHANGED <<treeVars, valVars, walkVars>>
    /\ UNCHANGED pureVars

Next == OnMessage \/ ReadResolved \/ ReadRejected \/ TakeNotifications

Spec == Init /\ [][Next]_vars

(***************************************************************************)
(* parsePlaylists called on a node tree.                                    *)
(***************************************************************************)
ParsePlaylistsCall ==
    /\ ~pdone
    /\ \E pn \in PlaylistsNodes, env \in Envs :
          \E draws \in DrawsFor(NonRoot(pn.nodes), env) :
             /\ pnode' = pn
             /\ penv' = env
             /\ pdraws' = draws
             /\ pout' = parsePlaylists(pn, env, draws)
    /\ pdone' = TRUE
    /\ UNCHANGED <<workerVars, valVars, walkVars>>
    /\ UNCHANGED pureVars

NextTree == ParsePlaylistsCall

SpecTree == Init /\ [][NextTree]_vars

(***************************************************************************)
(* getPlaylistDepth called on a playlist of a list.                         *)
(***************************************************************************)
\* getPlaylistDepth(playlist, allPlaylists), entry: depth = 0 and
\* currentId = playlist.parentId
DepthStart(allPlaylists) ==
    /\ dpc = "idle"
    /\ \E i \in 1..Len(allPlaylists) :
          /\ dstart' = i
          /\ currentId' = allPlaylists[i].parentId
    /\ dlist' = allPlaylists
    /\ depth' = 0
    /\ dpc' = "walking"

\* one turn of the while (currentId) loop; the model stops following a walk
\* that has made more turns than there are playlists
DepthStep ==
    /\ dpc = "walking"
    /\ Truthy(currentId)
    /\ depth <= Len(dlist)
    /\ depth' = depth + 1
    /\ LET j == FindById(dlist, currentId)
       IN  currentId' = IF j = 0 THEN Undefined ELSE dlist[j].parentId
    /\ UNCHANGED <<dlist, dstart, dpc>>
    /\ UNCHANGED <<workerVars, treeVars, valVars>>
    /\ UNCHANGED pureVars

\* the loop ends and depth is returned
DepthReturn ==
    /\ dpc = "walking"
    /\ ~Truthy(currentId)
    /\ dpc' = "done"
    /\ UNCHANGED <<dlist, dstart, depth, currentId>>
    /\ UNCHANGED <<workerVars, treeVars, valVars>>
    /\ UNCHANGED pureVars

(***************************************************************************)
(* validateLibrary called on a candidate, then on its own output.           *)
(***************************************************************************)
ValidateCall ==
    /\ vpc = "idle"
    /\ \E x \in Candidates :
          /\ cand' = x
          /\ vres' = validateLibrary(x)
          /\ vpc' = IF validateLibrary(x).ok THEN "validated" ELSE "threw"
    /\ UNCHANGED vres2
    /\ UNCHANGED <<workerVars, treeVars, walkVars>>
    /\ UNCHANGED pureVars

Revalidate ==
    /\ vpc = "validated"
    /\ dpc = "idle"
    /\ vres2' = validateLibrary(vres.v)
    /\ vpc' = "revalidated"
    /\ UNCHANGED <<cand, vres>>
    /\ UNCHANGED <<workerVars, treeVars, walkVars>>
    /\ UNCHANGED pureVars

ValDepthStart ==
    /\ vpc = "validated"
    /\ DepthStart(vres.v.playlists)
    /\ UNCHANGED <<workerVars, treeVars, valVars>>
    /\ UNCHANGED pureVars

NextValidate == ValidateCall \/ Revalidate \/ ValDepthStart \/ DepthStep \/ DepthReturn

SpecValidate == Init /\ [][NextValidate]_vars

(***************************************************************************)
(* The worker under the scheduling of the event loop: the promise of        *)
(* file.text() settles, and the handler's continuation then runs.           *)
(***************************************************************************)
SpecFair == Spec /\ WF_vars(ReadResolved) /\ WF_vars(ReadRejected)

(***************************************************************************)
(* parseGenres, parseRekordboxXml and the analytics reducers, each called   *)
(* once on an input.                                                        *)
(***************************************************************************)
ParseGenresCall ==
    /\ ~gdone
    /\ \E genreString \in GenreTexts :
          /\ gin' = genreString
          /\ gout' = parseGenres(genreString)
    /\ gdone' = TRUE
    /\ UNCHANGED <<workerVars, treeVars, valVars, walkVars, parseVars, statVars>>
    /\ UNCHANGED laterVars

NextGenres == ParseGenresCall

SpecGenres == Init /\ [][NextGenres]_vars

ParseCall ==
    /\ ~xdone
    /\ \E doc \in Docs, now \in Clock, env \in Envs :
          \E draws \in DrawsFor(NonRoot(doc.PLAYLISTS.nodes), env) :
             /\ xdoc' = doc
             /\ xres' = parseRekordboxXml(doc, Str(<<"f">>), Num(100), now, env, draws)
             /\ xvalid' = isValidRekordboxXml(doc)
    /\ xdone' = TRUE
    /\ UNCHANGED <<workerVars, treeVars, valVars, walkVars, genreVars, statVars>>
    /\ UNCHANGED laterVars

NextParse == ParseCall

SpecParse == Init /\ [][NextParse]_vars

AnalyticsCall ==
    /\ ~sdone
    /\ \E base \in StatLibraries, tracks \in StatTrackSeqs, bucketSize \in BucketSizes :
          LET library == [base EXCEPT !.tracks = tracks]
          IN  /\ slib' = library
              /\ stats' \in computeAnalytics(library)
              /\ sbucket' = bucketSize
              /\ sbpm' = computeBpmDistribution(tracks, bucketSize)
    /\ sdone' = TRUE
    /\ UNCHANGED <<workerVars, treeVars, valVars, walkVars, genreVars, parseVars>>
    /\ UNCHANGED laterVars

NextStats == AnalyticsCall

SpecStats == Init /\ [][NextStats]_vars

(***************************************************************************)
(* The top-N helpers, the duplicate finder and computeAnalytics called one  *)
(* after the other on the same Library.                                     *)
(***************************************************************************)
HelpersCall ==
    /\ ~tdone
    /\ \E base \in StatLibraries, tracks \in TopTrackSeqs, limit \in Limits :
          LET library == [base EXCEPT !.tracks = tracks]
              a == getTopTracks(library.tracks, limit)
              b == getTopArtists(a.tracks, limit)
              c == findDuplicateTracks(b.tracks)
              after == [library EXCEPT !.tracks = c.tracks]
          IN  /\ targ' = library
              /\ tlimit' = limit
              /\ topTracks' = a.top
              /\ topArtists' = b.top
              /\ duplicates' = c.groups
              /\ tstats' \in computeAnalytics(after)
              /\ tlib' = after
    /\ tdone' = TRUE
    /\ UNCHANGED <<workerVars, treeVars, valVars, walkVars, genreVars, parseVars, statVars>>
    /\ UNCHANGED pageVars

NextTop == HelpersCall

SpecTop == Init /\ [][NextTop]_vars

(***************************************************************************)
(* The upload page (HomePage), its worker and the dashboard.                *)
(***************************************************************************)
nonPageVars ==
    <<workerVars, treeVars, valVars, walkVars, genreVars, parseVars, statVars, topVars>>

\* for each File the page may post, what the worker's handler may post once
\* file.text() has resolved
PageOutcomes ==
    [f \in PageFiles |->
        UNION {{WorkerRun(f, now, env, draws) :
                   draws \in DrawsFor(NonRoot(f.doc.PLAYLISTS.nodes), env)} :
                  now \in Clock, env \in Envs}]

\* the item at position i taken out of a sequence
Without(seq, i) == SubSeq(seq, 1, i - 1) \o SubSeq(seq, i + 1, Len(seq))

\* the page is opened: HomePage mounts with state "idle" and a new worker
PageMount ==
    /\ ~pmounted
    /\ pmounted' = TRUE
    /\ store' \in StoredBefore
    /\ UNCHANGED <<state, progress, zerror, requested, answered, wq, wreading,
                   wstarted, wfailed, wterminated, chan, saving, psave, preceived,
                   timer, route, dloaded, dashpc>>
    /\ UNCHANGED nonPageVars

\* a file is dropped on the upload zone, shown while state is "idle", with
\* the zone taking the file in whatever the state
SelectFile_whileParsing ==
    /\ pmounted /\ route = "home"
    /\ state \in {"idle", "parsing"}
    /\ requested < MaxUploads
    /\ \E f \in DroppedFiles :
          IF validateFile(f) # "none"
          THEN /\ zerror' = validateFile(f)
               /\ UNCHANGED <<state, progress, requested, wq>>
          ELSE /\ zerror' = "none"
               /\ state' = "parsing"
               /\ progress' = 0
               /\ wq' = Append(wq, f)
               /\ requested' = requested + 1
    /\ UNCHANGED <<pmounted, answered, wreading, wstarted, wfailed, wterminated, chan,
                   saving, psave, preceived, store, timer, route, dloaded, dashpc>>
    /\ UNCHANGED nonPageVars

\* a file is dropped on the upload zone, rendered only while state is
\* "idle": validateFile, then handleFileSelect posts PARSE_FILE
SelectFile ==
    /\ pmounted /\ route = "home"
    /\ state = "idle"
    /\ requested < MaxUploads
    /\ \E f \in DroppedFiles :
          IF validateFile(f) # "none"
          THEN /\ zerror' = validateFile(f)
               /\ UNCHANGED <<state, progress, requested, wq>>
          ELSE /\ zerror' = "none"
               /\ state' = "parsing"
               /\ progress' = 0
               /\ wq' = Append(wq, f)
               /\ requested' = requested + 1
    /\ UNCHANGED <<pmounted, answered, wreading, wstarted, wfailed, wterminated, chan,
                   saving, psave, preceived, store, timer, route, dloaded, dashpc>>
    /\ UNCHANGED nonPageVars

\* the worker's handler takes a request: stage 1, then it awaits file.text()
PageWorkerTake ==
    /\ ~wfailed /\ ~wterminated
    /\ wq # <<>>
    /\ chan' = Append(chan, ProgressMessage(PROGRESS_STAGES.FILE_READ))
    /\ wreading' = Append(wreading, Head(wq))
    /\ wq' = Tail(wq)
    /\ wstarted' = TRUE
    /\ UNCHANGED <<pmounted, state, progress, zerror, requested, answered, wfailed,
                   wterminated, saving, psave, preceived, store, timer, route, dloaded,
                   dashpc>>
    /\ UNCHANGED nonPageVars

\* file.text() settles for one of the pending reads: the rest of the handler
\* runs, or its catch block posts the error
PageReadSettled ==
    /\ ~wterminated
    /\ \E i \in 1..Len(wreading) :
          /\ IF wreading[i].readable
             THEN \E msgs \in PageOutcomes[wreading[i]] : chan' = chan \o msgs
             ELSE chan' = Append(chan, ErrorMessage("Unknown parsing error"))
          /\ wreading' = Without(wreading, i)
    /\ UNCHANGED <<pmounted, state, progress, zerror, requested, answered, wq, wstarted,
                   wfailed, wterminated, saving, psave, preceived, store, timer, route,
                   dloaded, dashpc>>
    /\ UNCHANGED nonPageVars

\* worker.onerror: the worker script failed before its handler ever ran
WorkerError ==
    /\ pmounted /\ route = "home"
    /\ ~wfailed /\ ~wstarted
    /\ wfailed' = TRUE
    /\ state' = "error"
    /\ UNCHANGED <<pmounted, progress, zerror, requested, answered, wq, wreading,
                   wstarted, wterminated, chan, saving, psave, preceived, store, timer,
                   route, dloaded, dashpc>>
    /\ UNCHANGED nonPageVars

\* worker.onmessage scheduling the navigation as soon as PARSE_SUCCESS
\* arrives, without waiting for saveLibrary
OnPageMessage_navigateFirst ==
    /\ route = "home"
    /\ chan # <<>>
    /\ chan' = Tail(chan)
    /\ LET m == Head(chan) IN
          IF m.type = "PARSE_PROGRESS"
          THEN /\ progress' = m.percent
               /\ UNCHANGED <<state, answered, saving, psave, preceived, timer>>
          ELSE IF m.type = "PARSE_SUCCESS"
          THEN /\ state' = "success"
               /\ saving' = Append(saving, m.library)
               /\ psave' = "pending"
               /\ preceived' = m.library
               /\ answered' = answered + 1
               /\ timer' = timer + 1
               /\ UNCHANGED progress
          ELSE /\ state' = "error"
               /\ answered' = answered + 1
               /\ UNCHANGED <<progress, saving, psave, preceived, timer>>
    /\ UNCHANGED <<pmounted, zerror, requested, wq, wreading, wstarted, wfailed,
                   wterminated, store, route, dloaded, dashpc>>
    /\ UNCHANGED nonPageVars

\* worker.onmessage up to its await: PARSE_PROGRESS, PARSE_SUCCESS (which
\* starts saveLibrary) or PARSE_ERROR
OnPageMessage ==
    /\ route = "home"
    /\ chan # <<>>
    /\ chan' = Tail(chan)
    /\ LET m == Head(chan) IN
          IF m.type = "PARSE_PROGRESS"
          THEN /\ progress' = m.percent
               /\ UNCHANGED <<state, answered, saving, psave, preceived>>
          ELSE IF m.type = "PARSE_SUCCESS"
          THEN /\ state' = "success"
               /\ saving' = Append(saving, m.library)
               /\ psave' = "pending"
               /\ preceived' = m.library
               /\ answered' = answered + 1
               /\ UNCHANGED progress
          ELSE /\ state' = "error"
               /\ answered' = answered + 1
               /\ UNCHANGED <<progress, saving, psave, preceived>>
    /\ UNCHANGED <<pmounted, zerror, requested, wq, wreading, wstarted, wfailed,
                   wterminated, store, timer, route, dloaded, dashpc>>
    /\ UNCHANGED nonPageVars

\* saveLibrary resolves: the Library is in the store; the handler goes on,
\* and setTimeout schedules router.push("/dashboard")
SaveResolved ==
    /\ saving # <<>>
    /\ store' = Stored(Head(saving))
    /\ saving' = Tail(saving)
    /\ psave' = "ok"
    /\ timer' = timer + 1
    /\ UNCHANGED <<pmounted, state, progress, zerror, requested, answered, wq, wreading,
                   wstarted, wfailed, wterminated, chan, preceived, route, dloaded,
                   dashpc>>
    /\ UNCHANGED nonPageVars

\* saveLibrary rejects: the store is as it was; the catch block sets "error"
SaveRejected ==
    /\ saving # <<>>
    /\ saving' = Tail(saving)
    /\ psave' = "failed"
    /\ state' = "error"
    /\ UNCHANGED <<pmounted, progress, zerror, requested, answered, wq, wreading,
                   wstarted, wfailed, wterminated, chan, preceived, store, timer, route,
                   dloaded, dashpc>>
    /\ UNCHANGED nonPageVars

\* the Try Again button, rendered while state is "error"
TryAgain ==
    /\ pmounted /\ route = "home"
    /\ state = "error"
    /\ state' = "idle"
    /\ zerror' = "none"
    /\ UNCHANGED <<pmounted, progress, requested, answered, wq, wreading, wstarted,
                   wfailed, wterminated, chan, saving, psave, preceived, store, timer,
                   route, dloaded, dashpc>>
    /\ UNCHANGED nonPageVars

\* a navigation timer fires: router.push("/dashboard"); HomePage unmounts
\* and its effect cleanup terminates the worker; the dashboard mounts
TimerFire ==
    /\ timer > 0
    /\ route = "home"
    /\ timer' = timer - 1
    /\ route' = "dashboard"
    /\ wterminated' = TRUE
    /\ dashpc' = "mounted"
    /\ UNCHANGED <<pmounted, state, progress, zerror, requested, answered, wq, wreading,
                   wstarted, wfailed, chan, saving, psave, preceived, store, dloaded>>
    /\ UNCHANGED nonPageVars

\* loadLibrary of the dashboard: getLibrary reads the store; without a
\* Library the dashboard sends the user back to the upload page
DashboardLoad ==
    /\ route = "dashboard"
    /\ dashpc = "mounted"
    /\ dloaded' = store
    /\ dashpc' = "loaded"
    /\ route' = IF store.has THEN route ELSE "home"
    /\ UNCHANGED <<pmounted, state, progress, zerror, requested, answered, wq, wreading,
                   wstarted, wfailed, wterminated, chan, saving, psave, preceived, store,
                   timer>>
    /\ UNCHANGED nonPageVars

NextPage ==
    \/ PageMount
    \/ SelectFile
    \/ PageWorkerTake
    \/ PageReadSettled
    \/ WorkerError
    \/ OnPageMessage
    \/ SaveResolved
    \/ SaveRejected
    \/ TryAgain
    \/ TimerFire
    \/ DashboardLoad

SpecPage == Init /\ [][NextPage]_vars

(***************************************************************************)
(* Properties.                                                              *)
(***************************************************************************)
\* the request in hand has ended: the handler has run to its end
Terminal == wpc = "idle" /\ outbox # <<>>
LastMessage == outbox[Len(outbox)]
\* the pipeline has delivered a Library for the request in hand
Delivered == Terminal /\ LastMessage.type = "PARSE_SUCCESS"
DeliveredLibrary == LastMessage.library
RawTracks == file.doc.COLLECTION.TRACK
Structured == file.readable /\ file.doc.wellFormed /\ file.doc.hasRoot /\ file.doc.hasCollection

\* C1: a readable, well-formed document with the DJ_PLAYLISTS root and the
\* COLLECTION section whose track elements all carry a TrackID ends in
\* PARSE_SUCCESS, never in an error, whatever its other attributes hold.
C1_NeverAnError ==
    (Terminal /\ Structured /\ \A i \in 1..Len(RawTracks) : RawTracks[i].TrackID # Undefined)
        => LastMessage.type = "PARSE_SUCCESS"

InRange(v, lo, hi) == IsInteger(v) /\ Ge(v, lo) /\ Le(v, hi)
TrackRanges(tr) ==
    /\ tr.rating = Undefined \/ InRange(tr.rating, 0, 5)
    /\ tr.year = Undefined \/ InRange(tr.year, 1900, 2100)
    /\ IsNumber(tr.duration) /\ Ge(tr.duration, 0)

\* C2: in every Library the pipeline delivers, every track has rating absent
\* or an integer in [0,5], year absent or an integer in [1900,2100], and
\* duration >= 0.
C2_TrackRanges ==
    \A i \in 1..Len(outbox) :
        outbox[i].type = "PARSE_SUCCESS"
            => \A j \in 1..Len(outbox[i].library.tracks) :
                  TrackRanges(outbox[i].library.tracks[j])

\* a Library was delivered for a document holding a track with Year "2101",
\* whose year came out absent
C2_Witness ==
    /\ Delivered
    /\ \E j \in 1..Len(RawTracks) :
          /\ RawTracks[j].Year = Str(<<"2", "1", "0", "1">>)
          /\ DeliveredLibrary.tracks[j].year = Undefined

\* C3: a track element without a TrackID is fatal: the request ends with
\* PARSE_ERROR and no Library is delivered.
C3_MissingIdFatal ==
    (Terminal /\ Structured /\ \E i \in 1..Len(RawTracks) : RawTracks[i].TrackID = Undefined)
        => LastMessage.type = "PARSE_ERROR"

\* C4: no two tracks of a Library returned by validateLibrary have the same
\* id.
C4_UniqueTrackIds ==
    vres.ok => \A i, j \in 1..Len(vres.v.tracks) :
                   i # j => vres.v.tracks[i].id # vres.v.tracks[j].id

\* C5: validateLibrary applied to its own output succeeds and returns an
\* equal Library.
C5_Idempotent == vpc = "revalidated" => (vres2.ok /\ vres2.v = vres.v)

\* following parentId from currentId ends within fuel steps
RECURSIVE WalkEnds(_, _, _)
WalkEnds(pls, cur, fuel) ==
    IF ~Truthy(cur) THEN TRUE
    ELSE IF fuel = 0 THEN FALSE
    ELSE LET j == FindById(pls, cur)
         IN  IF j = 0 THEN TRUE ELSE WalkEnds(pls, pls[j].parentId, fuel - 1)

\* C6: in the sequence parsePlaylists returns, every present parentId is the
\* id of a playlist of the sequence, and following parentId from any playlist
\* reaches an absent parentId (no cycle).
C6_ParentForest ==
    pdone => \A i \in 1..Len(pout) :
                /\ pout[i].parentId # Undefined
                      => \E j \in 1..Len(pout) : pout[j].id = pout[i].parentId
                /\ WalkEnds(pout, pout[i].parentId, Len(pout))

\* parsePlaylists returned a playlist with a parent and a grandparent
C6_Witness ==
    /\ pdone
    /\ \E i, j, k \in 1..Len(pout) :
          /\ pout[i].parentId = pout[j].id
          /\ pout[j].parentId = pout[k].id
          /\ pout[k].parentId = Undefined

\* C7: for every playlist of a Library returned by validateLibrary the parent
\* walk of getPlaylistDepth ends: a candidate with a cycle of parent
\* references is never returned, and the loop makes no more turns than there
\* are playlists.
C7_DepthTerminates ==
    /\ vres.ok => \A i \in 1..Len(vres.v.playlists) :
                     WalkEnds(vres.v.playlists, vres.v.playlists[i].parentId,
                              Len(vres.v.playlists))
    /\ dpc = "walking" => depth <= Len(dlist)

TreePaths == NonRoot(pnode.nodes)
RecordOf(q) == pout[DocIndex(TreePaths, q)]
IsDescendant(d, q) == Len(q) < Len(d) /\ SubSeq(d, 1, Len(q)) = q
MemberKeys(node) == [k \in 1..Len(node.TRACK) |-> node.TRACK[k].Key.s]

\* C8: parsePlaylists emits one record per non-root node and none for the
\* root, in depth-first pre-order: a node comes after its parent, its whole
\* subtree before its next sibling; the record's parentId is the id of the
\* record of the enclosing node (absent below the root), and a playlist's
\* tracks are its membership keys in document order.
C8_PreOrder ==
    pdone =>
        IF ~pnode.hasNode THEN pout = <<>>
        ELSE /\ Len(pout) = Cardinality(TreePaths)
             /\ \A q \in TreePaths :
                   /\ RecordOf(q).id = generateId(penv, pdraws[q])
                   /\ RecordOf(q).name = Or(pnode.nodes[q].Name, Str(Unnamed))
                   /\ RecordOf(q).parentId =
                         IF Len(q) = 1 THEN Undefined ELSE RecordOf(ParentPath(q)).id
                   /\ RecordOf(q).type = "playlist"
                         => RecordOf(q).tracks.a = MemberKeys(pnode.nodes[q])
                   /\ Len(q) > 1 => DocIndex(TreePaths, ParentPath(q)) < DocIndex(TreePaths, q)
             /\ \A q \in TreePaths, d \in TreePaths, s \in TreePaths :
                   (/\ IsDescendant(d, q)
                    /\ ParentPath(s) = ParentPath(q)
                    /\ s[Len(s)] > q[Len(q)])
                       => /\ DocIndex(TreePaths, q) < DocIndex(TreePaths, d)
                          /\ DocIndex(TreePaths, d) < DocIndex(TreePaths, s)

\* parsePlaylists ran on a node with a child and a next sibling, one of the
\* three being a playlist with the members "1" and "2"
C8_Witness ==
    /\ pdone
    /\ pnode.hasNode
    /\ TreePaths = {<<1>>, <<1, 1>>, <<2>>}
    /\ Len(pout) = 3
    /\ pout[2].parentId = pout[1].id
    /\ pout[3].parentId = Undefined
    /\ \E i \in 1..3 : pout[i].tracks.a = << <<"1">>, <<"2">> >>

\* C9: the ids given to the playlists of one parsePlaylists run are pairwise
\* distinct, with crypto.randomUUID and with the fallback.
C9_DistinctIds ==
    pdone => \A i, j \in 1..Len(pout) : i # j => pout[i].id # pout[j].id

RECURSIVE Percents(_)
Percents(msgs) ==
    IF msgs = <<>> THEN <<>>
    ELSE IF Head(msgs).type = "PARSE_PROGRESS"
         THEN <<Head(msgs).percent>> \o Percents(Tail(msgs))
         ELSE Percents(Tail(msgs))

\* C10: on a successful parse the progress percentages posted are exactly
\* 10, 40, 70, 90, 100 in that order, all before the success notification.
C10_ProgressStages ==
    Delivered =>
        /\ Percents(outbox) = <<10, 40, 70, 90, 100>>
        /\ \A i \in 1..(Len(outbox) - 1) : outbox[i].type = "PARSE_PROGRESS"

IsTerminalMessage(m) == m.type \in {"PARSE_SUCCESS", "PARSE_ERROR"}

\* what the request in hand must end with: the validated Library when the
\* read, the parse and the validation all succeed, an error message otherwise
C11_Outcome ==
    \E now \in Clock, env \in Envs :
       \E draws \in DrawsFor(NonRoot(file.doc.PLAYLISTS.nodes), env) :
          LET parsed == parseRekordboxXml(file.doc, file.name, file.size, now, env, draws)
              validated == validateLibrary(parsed.v)
          IN  IF file.readable /\ parsed.ok /\ validated.ok
              THEN LastMessage = SuccessMessage(validated.v)
              ELSE /\ LastMessage.type = "PARSE_ERROR"
                   /\ LastMessage.error # ""
                   /\ LastMessage.library = NoLibrary

C11_Safety ==
    /\ \A i \in 1..Len(outbox) : IsTerminalMessage(outbox[i]) => i = Len(outbox)
    /\ wpc = "reading" => \A i \in 1..Len(outbox) : ~IsTerminalMessage(outbox[i])
    /\ Terminal => IsTerminalMessage(LastMessage)
    /\ (Terminal /\ file # NoFile) => C11_Outcome

\* C11: every PARSE_FILE request eventually ends with exactly one terminal
\* notification, the last message posted for it: PARSE_SUCCESS with the
\* validated Library when reading, parsing and validation all succeed,
\* otherwise PARSE_ERROR with a message and no Library.
C11_OneTerminal == [](C11_Safety) /\ ((wpc = "reading") ~> Terminal)

\* a request whose document parsed and then failed validation has ended with
\* the error as its only terminal notification
C11_Witness ==
    /\ Terminal
    /\ file.readable
    /\ Len(outbox) = 4
    /\ outbox[3] = ProgressMessage(PROGRESS_STAGES.TRACKS_PARSED)
    /\ LastMessage = ErrorMessage("ZodError")

XStructured == xdoc.wellFormed /\ xdoc.hasRoot /\ xdoc.hasCollection
XRawTracks == xdoc.COLLECTION.TRACK

SegmentStarts(s) == {lo \in 1..(Len(s) + 1) : lo = 1 \/ s[lo - 1] = ";"}
SegmentEnd(s, lo) ==
    CHOOSE hi \in (lo - 1)..Len(s) :
        /\ hi = Len(s) \/ s[hi + 1] = ";"
        /\ \A i \in lo..hi : s[i] # ";"
Inked(s, lo) == {i \in lo..SegmentEnd(s, lo) : s[i] # " "}
SetMin(S) == CHOOSE x \in S : \A y \in S : x <= y
SetMax(S) == CHOOSE x \in S : \A y \in S : x >= y
ExpectedGenres(s) ==
    LET kept == {lo \in SegmentStarts(s) : Inked(s, lo) # {}}
        nth(k) == CHOOSE lo \in kept : Cardinality({x \in kept : x < lo}) = k - 1
    IN  [k \in 1..Cardinality(kept) |->
            SubSeq(s, SetMin(Inked(s, nth(k))), SetMax(Inked(s, nth(k))))]

\* C13: parseGenres returns the segments between the ';' separators, each
\* without its leading and trailing spaces, those left empty dropped, in
\* their order; when none remains, or the field is missing, the result is
\* absent and not an empty list.
C13_GenreSegments ==
    gdone => IF ExpectedGenres(gin.s) = <<>> THEN gout = Undefined
             ELSE gout = Arr(ExpectedGenres(gin.s))

\* parseGenres ran on "a;;b", which has an empty segment between two tags
C13_Witness ==
    /\ gdone
    /\ gin = Str(<<"a", ";", ";", "b">>)
    /\ gout = Arr(<< <<"a">>, <<"b">> >>)

\* the number a raw attribute parses to
ParsedFloat(raw) == IF raw.k = "string" THEN parseFloat(raw.s) ELSE NaN
ParsedInt(raw) == IF raw.k = "string" THEN parseInt(raw.s) ELSE NaN

\* C14: the track parseTrack returns has bpm absent when the raw AverageBpm
\* is missing, not numeric or parses to a value <= 0, and equal to the
\* parsed value otherwise.
C14_BpmGuard ==
    (xdone /\ xres.ok) =>
        \A i \in 1..Len(XRawTracks) :
            LET val == ParsedFloat(XRawTracks[i].AverageBpm)
            IN  xres.v.tracks[i].bpm =
                    IF val.k # "number" \/ Le(val, 0) THEN Undefined ELSE val

\* the parser ran on a track with AverageBpm "0", one with "abc" being
\* another document of the same run
C14_Witness ==
    /\ xdone
    /\ xres.ok
    /\ \E i \in 1..Len(XRawTracks) :
          /\ XRawTracks[i].AverageBpm = Str(<<"0">>)
          /\ xres.v.tracks[i].bpm = Undefined

AbsentUnlessPositive(raw, field) ==
    LET val == ParsedInt(raw)
    IN  (val.k # "number" \/ Le(val, 0)) => field = Undefined

\* C15: the track parseTrack returns has trackNumber absent when the raw
\* TrackNumber is unparseable or parses to a value <= 0, and bitRate absent
\* when the raw BitRate is unparseable or parses to a value <= 0.
C15_TrackNumberBitRate ==
    (xdone /\ xres.ok) =>
        \A i \in 1..Len(XRawTracks) :
            /\ AbsentUnlessPositive(XRawTracks[i].TrackNumber, xres.v.tracks[i].trackNumber)
            /\ AbsentUnlessPositive(XRawTracks[i].BitRate, xres.v.tracks[i].bitRate)

\* the sum of a sequence of integers
RECURSIVE SumOf(_)
SumOf(ns) == IF ns = <<>> THEN 0 ELSE Head(ns) + SumOf(Tail(ns))
Counts(entries) == [i \in 1..Len(entries) |-> entries[i].count]
STracks == slib.tracks
\* the tags of track t, none when its genre is absent
TagsOf(t) == IF t.genre = Undefined THEN <<>> ELSE t.genre.a
\* the (track, position) pairs holding the tag
TagPairs(tag) ==
    {<<i, g>> \in (1..Len(STracks)) \X (1..2) :
        g <= Len(TagsOf(STracks[i])) /\ TagsOf(STracks[i])[g] = tag}

\* C16: the counts of computeGenreDistribution sum to the number of (track,
\* tag) pairs, every tag of the tracks has exactly one entry, whose count is
\* the number of its pairs, and the entries are in non-increasing count.
C16_GenreCounts ==
    sdone =>
        LET dist == stats.genreDistribution
        IN  /\ SumOf(Counts(dist)) = SumOf([i \in 1..Len(STracks) |-> Len(TagsOf(STracks[i]))])
            /\ \A i, j \in 1..Len(dist) : i # j => dist[i].genre # dist[j].genre
            /\ {dist[i].genre : i \in 1..Len(dist)}
                  = UNION {{TagsOf(STracks[i])[g] : g \in 1..Len(TagsOf(STracks[i]))} :
                              i \in 1..Len(STracks)}
            /\ \A i \in 1..Len(dist) : dist[i].count = Cardinality(TagPairs(dist[i].genre))
            /\ \A i \in 1..(Len(dist) - 1) : dist[i].count >= dist[i + 1].count

\* the distribution of a track tagged H and T followed by one tagged T
\* twice: T, met second, has three pairs and is listed before H
C16_Witness ==
    /\ sdone
    /\ Len(STracks) = 2
    /\ TagsOf(STracks[1]) = << <<"H">>, <<"T">> >>
    /\ TagsOf(STracks[2]) = << <<"T">>, <<"T">> >>
    /\ stats.genreDistribution
          = <<[genre |-> <<"T">>, count |-> 3], [genre |-> <<"H">>, count |-> 1]>>

HasBpm(t) == t.bpm # Undefined

\* C17: the buckets of computeBpmDistribution start at multiples of the
\* bucket size, in strictly ascending order; each counts the tracks with bpm
\* present and rangeStart <= bpm < rangeStart + size; tracks without bpm are
\* in no bucket and the counts sum to the number of tracks with bpm.
C17_BpmBuckets ==
    sdone =>
        /\ \A i \in 1..Len(sbpm) : sbpm[i].rangeStart % sbucket = 0
        /\ \A i \in 1..(Len(sbpm) - 1) : sbpm[i].rangeStart < sbpm[i + 1].rangeStart
        /\ \A i \in 1..Len(sbpm) :
              sbpm[i].count =
                 Cardinality({t \in 1..Len(STracks) :
                                 /\ HasBpm(STracks[t])
                                 /\ Ge(STracks[t].bpm, sbpm[i].rangeStart)
                                 /\ Lt(STracks[t].bpm, sbpm[i].rangeStart + sbucket)})
        /\ SumOf(Counts(sbpm)) = Cardinality({t \in 1..Len(STracks) : HasBpm(STracks[t])})

\* tracks with bpm 130, none and 129.9 were bucketed by tens: 129.9 is in
\* 120-130, 130 in 130-140, the track without bpm in neither
C17_Witness ==
    /\ sdone
    /\ sbucket = BPM_BUCKET_SIZE
    /\ Len(STracks) = 3
    /\ STracks[1].bpm = Num(130)
    /\ STracks[2].bpm = Undefined
    /\ STracks[3].bpm = Frac(129, 9)
    /\ sbpm = <<BpmEntry(120, 1, BPM_BUCKET_SIZE), BpmEntry(130, 1, BPM_BUCKET_SIZE)>>

Resolvable(t) == t.dateAdded.k = "date"
\* year * 100 + month of a valid Date
YearMonth(date) == date.n \div 100

\* C18: computeLibraryGrowth returns one bucket per distinct (year, month) of
\* dateAdded, in chronological order, keyed "YYYY-MM"; each bucket counts the
\* tracks added in its month or an earlier one, so the counts do not
\* decrease and the last equals the number of tracks with a resolvable date.
C18_Growth ==
    sdone =>
        LET growth == stats.libraryGrowth
            dated == {t \in 1..Len(STracks) : Resolvable(STracks[t])}
        IN  /\ \A i \in 1..Len(growth) :
                  /\ growth[i].date.k = "date"
                  /\ growth[i].month = MonthKey(growth[i].date)
                  /\ growth[i].count =
                        Cardinality({t \in dated : YearMonth(STracks[t].dateAdded)
                                                      <= YearMonth(growth[i].date)})
            /\ {YearMonth(growth[i].date) : i \in 1..Len(growth)}
                  = {YearMonth(STracks[t].dateAdded) : t \in dated}
            /\ \A i \in 1..(Len(growth) - 1) :
                  /\ YearMonth(growth[i].date) < YearMonth(growth[i + 1].date)
                  /\ growth[i].count <= growth[i + 1].count
            /\ Len(growth) > 0 => growth[Len(growth)].count = Cardinality(dated)

RatingOf(t) == IF t.rating = Undefined THEN Num(0) ELSE t.rating

\* C19: computeRatingDistribution counts every track once, under 0 when its
\* rating is absent: the counts sum to the number of tracks, and the entries
\* are in strictly ascending rating.
C19_RatingCounts ==
    sdone =>
        LET dist == stats.ratingDistribution
        IN  /\ SumOf(Counts(dist)) = Len(STracks)
            /\ \A i \in 1..Len(dist) :
                  dist[i].count =
                     Cardinality({t \in 1..Len(STracks) : RatingOf(STracks[t]) = dist[i].rating})
            /\ \A i \in 1..(Len(dist) - 1) : Lt(dist[i].rating, dist[i + 1].rating.n)

\* tracks rated 5, unrated and 0: the unrated one is counted with the 0
C19_Witness ==
    /\ sdone
    /\ Len(STracks) = 3
    /\ STracks[1].rating = Num(5)
    /\ STracks[2].rating = Undefined
    /\ STracks[3].rating = Num(0)
    /\ stats.ratingDistribution
          = <<[rating |-> Num(0), count |-> 2], [rating |-> Num(5), count |-> 1]>>

\* C20: averageBpm is the sum of the bpm of the tracks that have one divided
\* by their number, and 0 when no track has bpm.
C20_AverageBpm ==
    sdone =>
        LET present == {t \in 1..Len(STracks) : HasBpm(STracks[t])}
            tenths == SumOf([t \in 1..Len(STracks) |->
                                IF HasBpm(STracks[t])
                                THEN STracks[t].bpm.n * 10 + STracks[t].bpm.d ELSE 0])
        IN  IF present = {} THEN stats.averageBpm = Num(0)
            ELSE /\ stats.averageBpm.k = "number"
                 /\ (stats.averageBpm.n * 10 + stats.averageBpm.d) * Cardinality(present)
                       = tenths

\* two texts that differ at most in the case of their letters
SameLetter(c, d) ==
    \/ c = d
    \/ \E j \in 1..Len(UpperCase) :
          {c, d} = {UpperCase[j], LowerCase[j]}
SameIgnoringCase(s, t) ==
    /\ Len(s) = Len(t)
    /\ \A i \in 1..Len(s) : SameLetter(s[i], t[i])
\* the positions of the tracks whose artist is not the literal "Unknown"
Named == {i \in 1..Len(STracks) : STracks[i].artist # Str(Unknown)}

\* C21: totalArtists is the number of classes of artist names equal up to
\* letter case, over the tracks whose artist is not the literal "Unknown":
\* artists differing only in case count once, "Unknown" adds nothing.
C21_TotalArtists ==
    sdone =>
        stats.totalArtists =
            Cardinality({{j \in Named : SameIgnoringCase(STracks[i].artist.s,
                                                         STracks[j].artist.s)} :
                            i \in Named})

\* computeAnalytics ran on tracks by "A", by "a" and by "Unknown" and counted
\* one artist
C21_Witness ==
    /\ sdone
    /\ Len(STracks) = 3
    /\ {STracks[i].artist : i \in 1..3} = {Str(<<"A">>), Str(<<"a">>), Str(Unknown)}
    /\ stats.totalArtists = 1

\* C23: parsePlaylists gives a node the type folder exactly when its Type
\* marker is the text "0" and the type playlist otherwise, and a folder's
\* tracks are empty also when the folder node carries membership entries.
C23_FolderOrPlaylist ==
    (pdone /\ pnode.hasNode) =>
        \A q \in TreePaths :
            /\ RecordOf(q).type =
                  IF pnode.nodes[q].Type = Str(TextZero) THEN "folder" ELSE "playlist"
            /\ RecordOf(q).type = "folder" => RecordOf(q).tracks = Arr(<<>>)

\* parsePlaylists ran on a tree with a folder node carrying a membership
\* entry and with a node without a Type marker
C23_Witness ==
    /\ pdone
    /\ pnode.hasNode
    /\ \E q \in TreePaths :
          /\ pnode.nodes[q].Type = Str(TextZero)
          /\ pnode.nodes[q].TRACK # <<>>
          /\ RecordOf(q).type = "folder"
          /\ RecordOf(q).tracks = Arr(<<>>)
    /\ \E q \in TreePaths :
          /\ pnode.nodes[q].Type = Undefined
          /\ RecordOf(q).type = "playlist"

\* the non-root nodes of the PLAYLISTS section of the document in hand
DocPaths == NonRoot(file.doc.PLAYLISTS.nodes)
\* the count a node reports: its Count attribute, or its Entries attribute
\* when it has no Count, as a number; absent when it has neither
Reported(node) ==
    IF node.Count # Undefined THEN ParsedInt(node.Count)
    ELSE IF node.Entries # Undefined THEN ParsedInt(node.Entries)
    ELSE Undefined

\* C24: in the delivered Library each playlist's count is the value its node
\* reported in Count, or in Entries when it has no Count, and is absent when
\* the node has neither; it is never the number of its members or children.
C24_ReportedCount ==
    (Delivered /\ file.doc.hasPlaylists /\ file.doc.PLAYLISTS.hasNode) =>
        \A q \in DocPaths :
            DeliveredLibrary.playlists[DocIndex(DocPaths, q)].count
                = Reported(file.doc.PLAYLISTS.nodes[q])

TTracks == targ.tracks
\* an artist or a title that is neither missing nor the literal "Unknown"
Given(v) == v # Undefined /\ v # Str(<<>>) /\ v # Str(Unknown)
\* equal once trimmed and taken without regard to letter case
SameName(v, w) == SameIgnoringCase(Trim(v.s), Trim(w.s))
\* the tracks at positions i and j are duplicates of each other
DuplicatePair(i, j) ==
    /\ Given(TTracks[i].artist) /\ Given(TTracks[i].title)
    /\ Given(TTracks[j].artist) /\ Given(TTracks[j].title)
    /\ SameName(TTracks[i].artist, TTracks[j].artist)
    /\ SameName(TTracks[i].title, TTracks[j].title)
\* the groups holding the track at position i, as (group, place) pairs
GroupsOf(i) ==
    {<<g, k>> \in (1..Len(duplicates)) \X (1..Len(TTracks)) :
        k <= Len(duplicates[g]) /\ duplicates[g][k] = i}

\* C22: findDuplicateTracks puts two tracks in one group exactly when both
\* have an artist and a title that are given and not "Unknown" and their
\* lowercase-trimmed artists and titles are equal; every group has at least
\* two members, no track is in two groups, and the group sizes never grow.
C22_DuplicateGroups ==
    tdone =>
        /\ \A i, j \in 1..Len(TTracks) :
              i # j =>
                 ((\E g \in 1..Len(duplicates) :
                      \E k, l \in 1..Len(duplicates[g]) :
                          duplicates[g][k] = i /\ duplicates[g][l] = j)
                  <=> DuplicatePair(i, j))
        /\ \A g \in 1..Len(duplicates) : Len(duplicates[g]) >= 2
        /\ \A i \in 1..Len(TTracks) : Cardinality(GroupsOf(i)) <= 1
        /\ \A g \in 1..Len(duplicates) - 1 : Len(duplicates[g]) >= Len(duplicates[g + 1])

\* track.playCount, a missing one taken as 0
PlayCountOf(t) == IF t.playCount = Undefined THEN 0 ELSE t.playCount.n

\* C25: getTopTracks returns at most limit tracks, in non-increasing
\* playCount, and no track left out has a playCount greater than a returned
\* one; getTopArtists returns at most limit (artist, count) entries in
\* non-increasing count, count being the number of tracks of that artist.
C25_TopN ==
    tdone =>
        /\ Len(topTracks) <= tlimit
        /\ \A k, l \in 1..Len(topTracks) :
              /\ topTracks[k] \in 1..Len(TTracks)
              /\ k < l => /\ topTracks[k] # topTracks[l]
                          /\ PlayCountOf(TTracks[topTracks[k]])
                                >= PlayCountOf(TTracks[topTracks[l]])
        /\ \A k \in 1..Len(topTracks) :
              \A j \in 1..Len(TTracks) :
                 (\A l \in 1..Len(topTracks) : topTracks[l] # j)
                    => PlayCountOf(TTracks[j]) <= PlayCountOf(TTracks[topTracks[k]])
        /\ Len(topArtists) <= tlimit
        /\ \A k \in 1..Len(topArtists) - 1 : topArtists[k].count >= topArtists[k + 1].count
        /\ \A k \in 1..Len(topArtists) :
              topArtists[k].count =
                 Cardinality({j \in 1..Len(TTracks) : TTracks[j].artist.s = topArtists[k].artist})

\* the helpers ran with limit 2 on tracks played 1, 3 and 5 times by three
\* artists: the tracks played 5 and 3 times come back, in that order
C25_Witness ==
    /\ tdone
    /\ tlimit = 2
    /\ Len(TTracks) = 3
    /\ [i \in 1..3 |-> PlayCountOf(TTracks[i])] = <<1, 3, 5>>
    /\ topTracks = <<3, 2>>
    /\ Len(topArtists) = 2

Reorderings ==
    {[i \in 1..Len(STracks) |-> STracks[f[i]]] :
        f \in {g \in [1..Len(STracks) -> 1..Len(STracks)] :
                  \A a, b \in 1..Len(STracks) : a # b => g[a] # g[b]}}
\* the (bucket, count) pairs of a distribution
Pairs(distribution, bucket) ==
    {<<distribution[i][bucket], distribution[i].count>> : i \in 1..Len(distribution)}
\* two LibraryStats with the same scalars and the same pairs in each distribution
SameAggregates(s, t) ==
    /\ s.totalTracks = t.totalTracks
    /\ s.totalArtists = t.totalArtists
    /\ s.totalGenres = t.totalGenres
    /\ s.averageBpm = t.averageBpm
    /\ s.totalDuration = t.totalDuration
    /\ Pairs(s.genreDistribution, "genre") = Pairs(t.genreDistribution, "genre")
    /\ Pairs(s.bpmDistribution, "range") = Pairs(t.bpmDistribution, "range")
    /\ Pairs(s.keyDistribution, "key") = Pairs(t.keyDistribution, "key")
    /\ Pairs(s.ratingDistribution, "rating") = Pairs(t.ratingDistribution, "rating")
    /\ Pairs(s.libraryGrowth, "month") = Pairs(t.libraryGrowth, "month")

\* C26: computeAnalytics on the same tracks in another order gives the same
\* totalTracks, totalArtists, totalGenres, averageBpm and totalDuration and,
\* in each distribution, the same set of (bucket, count) pairs.
C26_OrderIndependent ==
    sdone =>
        \A tracks \in Reorderings :
            \A other \in computeAnalytics([slib EXCEPT !.tracks = tracks]) :
                SameAggregates(stats, other)

\* the requests posted whose terminal notification has not been handled
Outstanding == requested - answered

C29_SaveThenNavigate ==
    [][/\ timer' > timer =>
             /\ psave = "pending" /\ psave' = "ok"
             /\ store' = Stored(preceived)
       /\ (psave' = "failed" /\ psave # "failed") =>
             /\ state' = "error"
             /\ timer' = timer
             /\ store' = store
       /\ (dashpc' = "loaded" /\ dashpc # "loaded") =>
             /\ psave = "ok"
             /\ dloaded' = Stored(preceived)]_vars

\* a first save failed, Try Again was pressed, the second upload was saved,
\* and the dashboard has loaded the Library of the second upload although
\* the store held another one when the page was opened
C29_Witness ==
    /\ requested = 2
    /\ dashpc = "loaded"
    /\ route = "dashboard"
    /\ dloaded = Stored(preceived)
    /\ dloaded \notin StoredBefore


\* C30: whenever isValidRekordboxXml returns true on a document,
\* parseRekordboxXml on the same document returns a Library and does not
\* throw.
C30_ValidThenParses == (xdone /\ xvalid) => xres.ok

====
